---- MODULE Spec2Model ----
(***************************************************************************)
(* A model of the scheduling and execution engine of custom_scheduler:     *)
(* the Scheduler class on top of the JobRepository class and the JobModel  *)
(* collection.  Every `await` of scheduleJob, processNextJobs, processJob, *)
(* cancelJob and retryJob is a point where other callbacks of the event    *)
(* loop may run; a repository operation takes effect on the job collection *)
(* at the step that issues it, and the code after the await runs in a      *)
(* later step.                                                             *)
(***************************************************************************)
EXTENDS Integers, Sequences, FiniteSets, Bags

VARIABLES
    initialized,   \* Scheduler.initialized
    cronTask,      \* Scheduler.cronTask is set (not null)
    cronTasks,     \* the cron tasks that are scheduled and not stopped
    isConnected,   \* DatabaseService.isConnected
    recurringJobs, \* the RecurringJobModel collection: definition id -> document
    recurringSaved, \* the RecurringJobModel documents saved so far
    checks,        \* checkRecurringJobs invocations suspended at an await (a bag)
    jobHandlers,   \* Scheduler.jobHandlers: the job names with a handler
    schedulerOptions, \* Scheduler.options, as the constructor set it
    activeJobs,    \* Scheduler.activeJobs: the job.id objects added and not deleted,
                   \* one per processJob invocation (a bag of job ids)
    jobs,          \* the JobModel collection: job id -> document
    nextId,        \* the next fresh document id
    now,           \* the clock (new Date())
    calls,         \* processNextJobs invocations awaiting getPendingJobs (a bag)
    execs,         \* processJob invocations suspended at an await (a bag)
    orphans,       \* the handler invocations that lost the timeout race and are
                   \* still running: a bag of job ids
    emitted,       \* events published so far: kind -> job id -> count
    invoked,       \* handler invocations started so far: job id -> count
    mgmt,          \* scheduleJob / cancelJob / retryJob invocations suspended at an
                   \* await (a bag)
    ret,           \* what the last finished management call returned
    retried,       \* the job ids retryJob has reset to Pending
    resetAt,       \* job id -> the handler invocations started when retryJob last reset
                   \* the job from Failed with its retry budget used up
    ticks          \* processNextJobs invocations so far

vars == <<initialized, cronTask, cronTasks, isConnected, recurringJobs,
          recurringSaved, checks, jobHandlers, schedulerOptions, activeJobs,
          jobs, nextId, now, calls, execs, orphans, emitted, invoked, mgmt,
          ret, retried, resetAt, ticks>>

(* What retryJob keeps track of *)
manual == <<retried, resetAt>>

(* The state of the tick driver, of the store connection, of the recurring   *)
(* definitions and of the checks of them in progress                         *)
tickDriver == <<cronTask, cronTasks, isConnected, recurringJobs,
                recurringSaved, checks>>

(* The same with the count of handler invocations, which only processJob     *)
(* changes                                                                   *)
driver == <<tickDriver, invoked>>

----------------------------------------------------------------------------
(* Bounds of the model *)

MaxJobs == 2            \* jobs ever created
MaxTime == 1            \* the clock runs over 0..MaxTime
MaxCalls == 2           \* processNextJobs invocations in flight at once
MaxTicks == 2           \* processNextJobs invocations in a run
MaxTicksOneJob == 4     \* the same, in the runs with a single job
MaxCancels == 2         \* cancelJob invocations in flight at once
MaxCancelJobs == 1      \* jobs ever created, in the runs with cancelJob
MaxCancelTicks == 1     \* processNextJobs invocations, in the runs with cancelJob
MaxRetryCalls == 1      \* retryJob invocations in flight at once
MaxRetryTicks == 2      \* processNextJobs invocations, in the runs with retryJob
MaxLifecycleTicks == 1  \* processNextJobs invocations that go on, in the runs with shutdown
MaxDay == 7             \* the days after 1970-01-01 getNextRunTime is called on
MaxCronTicks == 3       \* ticks of the cron task in a run
MaxMinutes == 2         \* the clock runs over this many minutes, in the runs with cron ticks
MaxInitializes == 2     \* initialize() calls in flight at once
MaxCronTasks == 3       \* cron tasks scheduled and not stopped, with those about to be
MaxProgressTicks == 4   \* processNextJobs invocations, in the runs with two jobs and fairness

(* options.maxConcurrentJobs || 10 *)
DefaultMaxConcurrentJobs == 10

(* this.options.maxConcurrentJobs *)
maxConcurrentJobs == schedulerOptions.maxConcurrentJobs

(* Its configured options.defaultRetryAttempts and options.defaultRetryDelay *)
defaultRetryAttempts == 5
defaultRetryDelay == 120000

JobIds == 1..MaxJobs
Times == 0..MaxTime
NoTime == -1

----------------------------------------------------------------------------
(* Enumerations *)

PENDING == "pending"
RUNNING == "running"
COMPLETED == "completed"
FAILED == "failed"
JobStatus == {PENDING, RUNNING, COMPLETED, FAILED}

LOW == "low"
NORMAL == "normal"
HIGH == "high"
JobPriority == {LOW, NORMAL, HIGH}

JOB_SCHEDULED == "job_scheduled"
JOB_STARTED == "job_started"
JOB_COMPLETED == "job_completed"
JOB_FAILED == "job_failed"
JOB_RETRIED == "job_retried"
JOB_CANCELLED == "job_cancelled"
SchedulerEvent ==
    {JOB_SCHEDULED, JOB_STARTED, JOB_COMPLETED, JOB_FAILED, JOB_RETRIED, JOB_CANCELLED}

(* The job name of the application; its handler is registered at some point *)
KnownName == "known"

(* Error messages persisted on a job *)
NoMessage == "none"
MsgNoHandler == "No handler registered for job type"
MsgHandler == "handler error"
MsgTimeout == "Job timed out"
MsgSubscriber == "subscriber error"

(* An optional value: <<>> is null/undefined, <<x>> is x *)
Null == <<>>
Some(x) == <<x>>

(* An option that is left out of JobOptions *)
Undefined == -1

----------------------------------------------------------------------------
(* Bag helpers *)

BagAdd(b, e) == b (+) SetToBag({e})
BagRemove(b, e) == b (-) SetToBag({e})
BagCount(b, e) == CopiesIn(e, b)

Range(s) == {s[i] : i \in DOMAIN s}

----------------------------------------------------------------------------
(* JobRepository *)

DefaultMaxRetries == 3

(* The default retry delay, in milliseconds *)
DefaultRetryDelay == 60000

(* The default timeout, in milliseconds *)
DefaultTimeout == 30000

(* JavaScript's `v || d` on an optional number: undefined and 0 are falsy *)
OrDefault(v, d) == IF v = Undefined \/ v = 0 THEN d ELSE v

(* `p || JobPriority.NORMAL` on an optional priority *)
NoPriority == "undefined"
PriorityOrDefault(p) == IF p = NoPriority THEN NORMAL ELSE p

(* The document createJob saves *)
createJob(name, scheduledAt, options) ==
    [ name         |-> name,
      status       |-> PENDING,
      scheduledAt  |-> scheduledAt,
      executedAt   |-> NoTime,
      completedAt  |-> NoTime,
      errorMessage |-> NoMessage,
      attempts     |-> 0,
      priority     |-> PriorityOrDefault(options.priority),
      maxRetries   |-> OrDefault(options.maxRetries, DefaultMaxRetries),
      retryDelay   |-> OrDefault(options.retryDelay, DefaultRetryDelay),
      timeout      |-> OrDefault(options.timeout, DefaultTimeout) ]

(* A connection that is taken to be open at all times *)
ConnectionOpenAlways == TRUE

(* Whether an operation issued on the store reaches the collection: the      *)
(* connection is open from the end of mongoose.connect to the end of         *)
(* mongoose.disconnect, which is what DatabaseService.isConnected records.   *)
(* An operation issued on a closed connection changes nothing and its        *)
(* promise rejects; that the driver might hold such an operation back for a  *)
(* later connection is library behaviour outside this source and is not      *)
(* part of the model.                                                        *)
ConnectionOpen == isConnected

(* The error of an operation that the store rejects *)
MsgStore == "store error"

(* getJobById: the document, or null *)
getJobById(js, id) == IF id \in DOMAIN js THEN Some(js[id]) ELSE Null

(* The update document updateJobStatus builds, applied to one document *)
StatusUpdate(doc, status, errorMessage, at) ==
    IF status = RUNNING THEN [doc EXCEPT !.status = status, !.executedAt = at]
    ELSE IF status = COMPLETED THEN [doc EXCEPT !.status = status, !.completedAt = at]
    ELSE IF status = FAILED /\ errorMessage # NoMessage
         THEN [doc EXCEPT !.status = status, !.errorMessage = errorMessage]
    ELSE [doc EXCEPT !.status = status]

(* updateJobStatus: findByIdAndUpdate changes nothing when the id is absent, *)
(* and does not reach the collection on a closed connection                  *)
updateJobStatus(js, id, status, errorMessage, at) ==
    IF ConnectionOpen /\ id \in DOMAIN js
    THEN [js EXCEPT ![id] = StatusUpdate(js[id], status, errorMessage, at)]
    ELSE js

(* incrementJobAttempts: $inc attempts by 1 *)
incrementJobAttempts(js, id) ==
    IF ConnectionOpen /\ id \in DOMAIN js
    THEN [js EXCEPT ![id].attempts = js[id].attempts + 1]
    ELSE js

(* deleteJob: deleteOne; the result is deletedCount === 1 *)
deleteJob(js, id) ==
    IF ConnectionOpen THEN [j \in DOMAIN js \ {id} |-> js[j]] ELSE js
deleteJobSuccess(js, id) == ConnectionOpen /\ id \in DOMAIN js

(* The enum values are stored as strings, and the sort of getPendingJobs     *)
(* compares them as strings: code point by code point.                       *)
PriorityString(p) ==
    CASE p = LOW    -> <<108, 111, 119>>                    \* "low"
      [] p = NORMAL -> <<110, 111, 114, 109, 97, 108>>      \* "normal"
      [] p = HIGH   -> <<104, 105, 103, 104>>               \* "high"

RECURSIVE StringLess(_, _)
StringLess(a, b) ==
    IF b = <<>> THEN FALSE
    ELSE IF a = <<>> THEN TRUE
    ELSE IF Head(a) # Head(b) THEN Head(a) < Head(b)
    ELSE StringLess(Tail(a), Tail(b))

(* .sort({ priority: -1, scheduledAt: 1 }): a sorts strictly before b *)
SortsBefore(a, b) ==
    \/ StringLess(PriorityString(b.priority), PriorityString(a.priority))
    \/ a.priority = b.priority /\ a.scheduledAt < b.scheduledAt

(* The filter of getPendingJobs *)
PendingFilter(js, at) ==
    {j \in DOMAIN js : js[j].status = PENDING /\ js[j].scheduledAt <= at}

(* getPendingJobs(limit): the results find().sort().limit() may give, as     *)
(* sequences of job ids.  The order among documents equal on both sort keys  *)
(* is not specified by the store, so every such order is a result.           *)
getPendingJobs(js, at, limit) ==
    LET due == PendingFilter(js, at)
        n   == IF Cardinality(due) < limit THEN Cardinality(due) ELSE limit
    IN  { s \in [1..n -> due] :
            /\ \A i, k \in 1..n : i < k => s[i] # s[k] /\ ~SortsBefore(js[s[k]], js[s[i]])
            /\ \A j \in due \ Range(s) : \A i \in 1..n : ~SortsBefore(js[j], js[s[i]]) }

----------------------------------------------------------------------------
(* Scheduler: lifecycle, registry, events *)

(* this.emit(kind, job): one more event of that kind for that job *)
Emit(ev, kind, id) == [ev EXCEPT ![kind][id] = ev[kind][id] + 1]

NoReturn == [op |-> "none", value |-> "none"]
Returned(op, value) == [op |-> op, value |-> value]
NotInitialized == "Scheduler not initialized"

(* What initialize() and shutdown() leave behind: nothing when they return   *)
(* at once, the line they log when they run to their end                     *)
Void == "void"
LogInitialized == "Scheduler initialized"
LogShutdown == "Scheduler shutdown"

(* What cancelJob and retryJob read of the job they looked up: whether it    *)
(* exists, and its status                                                    *)
StatusRead(job) == IF job = Null THEN Null ELSE Some(job[1].status)

(* An ensureInitialized that lets every call through *)
ensureInitializedAlways == TRUE

(* ensureInitialized(): whether the call goes on; it throws otherwise *)
ensureInitialized == initialized

(* What is left of an operation whose ensureInitialized throws: the error    *)
ThrowsNotInitialized(op) ==
    /\ ret' = Returned(op, NotInitialized)
    /\ UNCHANGED <<initialized, driver, jobHandlers, schedulerOptions,
                   activeJobs, jobs, nextId, now, calls, execs, orphans,
                   emitted, mgmt, manual, ticks>>

(* The job id of an invocation that is not about one job *)
NoId == 0

(* A scheduleJob, cancelJob, retryJob, getJob, scheduleRecurringJob,         *)
(* initialize or shutdown invocation suspended at an await: the job id, what *)
(* the call looked up, and whether its write found the document              *)
Management(op, pc, id, job, success) ==
    [op |-> op, pc |-> pc, id |-> id, job |-> job, success |-> success]

(* An invocation whose store operation has been issued on a closed           *)
(* connection and will reject                                               *)
Rejected(op) == Management(op, "rejected", NoId, Null, FALSE)

(* The store operation a scheduleJob, scheduleRecurringJob, getJob,          *)
(* cancelJob or retryJob invocation waits for rejects: none of them catches  *)
(* it, so the call rejects with the error of the store                       *)
ManagementRejects(m) ==
    /\ BagCount(mgmt, m) > 0
    /\ m.pc = "rejected"
    /\ ret' = Returned(m.op, MsgStore)
    /\ mgmt' = BagRemove(mgmt, m)
    /\ UNCHANGED <<initialized, driver, jobHandlers, schedulerOptions,
                   activeJobs, jobs, nextId, now, calls, execs, orphans,
                   emitted, manual, ticks>>

(* An initialize() that never returns at once *)
AlreadyInitializedNever == FALSE

(* The test initialize() starts with *)
AlreadyInitialized == initialized

(* initialize(), up to its await: nothing on an initialized engine,          *)
(* otherwise databaseService.connect, which returns at once on a connected   *)
(* store and waits for mongoose.connect otherwise                            *)
Initialize ==
    /\ IF AlreadyInitialized
       THEN /\ ret' = Returned("initialize", Void)
            /\ mgmt' = mgmt
       ELSE /\ mgmt' = BagAdd(mgmt, Management("initialize",
                                               IF isConnected THEN "connected" ELSE "connect",
                                               NoId, Null, FALSE))
            /\ ret' = ret
    /\ UNCHANGED <<initialized, driver, jobHandlers, schedulerOptions,
                   activeJobs, jobs, nextId, now, calls, execs, orphans,
                   emitted, manual, ticks>>

(* DatabaseService.connect after mongoose.connect: the store is connected;   *)
(* initialize() still waits for the promise of connect                       *)
InitializeConnected(m) ==
    /\ BagCount(mgmt, m) > 0
    /\ m.op = "initialize" /\ m.pc = "connect"
    /\ isConnected' = TRUE
    /\ mgmt' = BagAdd(BagRemove(mgmt, m), [m EXCEPT !.pc = "connected"])
    /\ UNCHANGED <<invoked, initialized, cronTask, cronTasks, recurringJobs,
                   recurringSaved, checks, jobHandlers, schedulerOptions,
                   activeJobs, jobs, nextId, now, calls, execs, orphans,
                   emitted, ret, manual, ticks>>

(* initialize() after connect: a cron task is scheduled and kept in          *)
(* cronTask, the flag is set                                                 *)
InitializeReturn(m) ==
    /\ BagCount(mgmt, m) > 0
    /\ m.op = "initialize" /\ m.pc = "connected"
    /\ isConnected' = isConnected
    /\ cronTask' = TRUE
    /\ cronTasks' = cronTasks + 1
    /\ initialized' = TRUE
    /\ ret' = Returned("initialize", LogInitialized)
    /\ mgmt' = BagRemove(mgmt, m)
    /\ UNCHANGED <<invoked, recurringJobs, recurringSaved, checks,
                   jobHandlers, schedulerOptions, activeJobs, jobs, nextId,
                   now, calls, execs, orphans, emitted, manual, ticks>>

(* shutdown(), up to its await: nothing on an engine that is not             *)
(* initialized, otherwise the cron task is stopped and forgotten, then       *)
(* databaseService.disconnect, which returns at once on a store that is not  *)
(* connected and waits for mongoose.disconnect otherwise                     *)
Shutdown ==
    /\ IF ~initialized
       THEN /\ ret' = Returned("shutdown", Void)
            /\ UNCHANGED <<mgmt, cronTask, cronTasks>>
       ELSE /\ cronTasks' = IF cronTask THEN cronTasks - 1 ELSE cronTasks
            /\ cronTask' = FALSE
            /\ mgmt' = BagAdd(mgmt, Management("shutdown",
                                               IF isConnected THEN "disconnect"
                                                              ELSE "disconnected",
                                               NoId, Null, FALSE))
            /\ ret' = ret
    /\ UNCHANGED <<invoked, initialized, isConnected, recurringJobs,
                   recurringSaved, checks, jobHandlers, schedulerOptions,
                   activeJobs, jobs, nextId, now, calls, execs, orphans,
                   emitted, manual, ticks>>

(* DatabaseService.disconnect after mongoose.disconnect: the store is        *)
(* disconnected; shutdown() still waits for the promise of disconnect        *)
ShutdownDisconnected(m) ==
    /\ BagCount(mgmt, m) > 0
    /\ m.op = "shutdown" /\ m.pc = "disconnect"
    /\ isConnected' = FALSE
    /\ mgmt' = BagAdd(BagRemove(mgmt, m), [m EXCEPT !.pc = "disconnected"])
    /\ UNCHANGED <<invoked, initialized, cronTask, cronTasks, recurringJobs,
                   recurringSaved, checks, jobHandlers, schedulerOptions,
                   activeJobs, jobs, nextId, now, calls, execs, orphans,
                   emitted, ret, manual, ticks>>

(* shutdown() after disconnect: the flag is cleared *)
ShutdownReturn(m) ==
    /\ BagCount(mgmt, m) > 0
    /\ m.op = "shutdown" /\ m.pc = "disconnected"
    /\ isConnected' = isConnected
    /\ initialized' = FALSE
    /\ ret' = Returned("shutdown", LogShutdown)
    /\ mgmt' = BagRemove(mgmt, m)
    /\ UNCHANGED <<invoked, cronTask, cronTasks, recurringJobs,
                   recurringSaved, checks, jobHandlers, schedulerOptions,
                   activeJobs, jobs, nextId, now, calls, execs, orphans,
                   emitted, manual, ticks>>

(* registerJobHandler(jobName, handler) *)
RegisterJobHandler(name) ==
    /\ name \notin jobHandlers
    /\ jobHandlers' = jobHandlers \cup {name}
    /\ UNCHANGED <<ticks, driver>>
    /\ UNCHANGED <<initialized, schedulerOptions, activeJobs, jobs, nextId,
                   now, calls, execs, orphans, emitted, mgmt, ret, manual>>

(* scheduleJob(name, data, scheduledAt, options), up to its await:           *)
(* ensureInitialized, then createJob saves the document                      *)
ScheduleJob(name, scheduledAt, options) ==
    IF ~ensureInitialized THEN ThrowsNotInitialized("scheduleJob")
    ELSE
    /\ IF ConnectionOpen
       THEN /\ jobs' = [j \in DOMAIN jobs \cup {nextId} |->
                         IF j = nextId THEN createJob(name, scheduledAt, options)
                         ELSE jobs[j]]
            /\ nextId' = nextId + 1
            /\ mgmt' = BagAdd(mgmt,
                              Management("scheduleJob", "created", nextId, Null, TRUE))
       ELSE /\ mgmt' = BagAdd(mgmt, Rejected("scheduleJob"))
            /\ UNCHANGED <<jobs, nextId>>
    /\ UNCHANGED <<ticks, driver>>
    /\ UNCHANGED <<initialized, jobHandlers, schedulerOptions, activeJobs,
                   now, calls, execs, orphans, emitted, ret, manual>>

(* scheduleJob after createJob: the event, and the return *)
ScheduleJobReturn(m) ==
    /\ BagCount(mgmt, m) > 0
    /\ m.op = "scheduleJob" /\ m.pc = "created"
    /\ emitted' = Emit(emitted, JOB_SCHEDULED, m.id)
    /\ ret' = Returned("scheduleJob", "job")
    /\ mgmt' = BagRemove(mgmt, m)
    /\ UNCHANGED <<ticks, driver>>
    /\ UNCHANGED <<initialized, jobHandlers, schedulerOptions, activeJobs,
                   jobs, nextId, now, calls, execs, orphans, manual>>

(* getJob(jobId), up to its await: ensureInitialized, then getJobById *)
GetJob(id) ==
    IF ~ensureInitialized THEN ThrowsNotInitialized("getJob")
    ELSE
    /\ mgmt' = BagAdd(mgmt, IF ConnectionOpen
                            THEN Management("getJob", "read", id,
                                            StatusRead(getJobById(jobs, id)), FALSE)
                            ELSE Rejected("getJob"))
    /\ UNCHANGED <<initialized, driver, jobHandlers, schedulerOptions,
                   activeJobs, jobs, nextId, now, calls, execs, orphans,
                   emitted, ret, manual, ticks>>

(* getJob after getJobById: the job read, or null *)
GetJobReturn(m) ==
    /\ BagCount(mgmt, m) > 0
    /\ m.op = "getJob" /\ m.pc = "read"
    /\ ret' = Returned("getJob", IF m.job = Null THEN "null" ELSE m.job[1])
    /\ mgmt' = BagRemove(mgmt, m)
    /\ UNCHANGED <<initialized, driver, jobHandlers, schedulerOptions,
                   activeJobs, jobs, nextId, now, calls, execs, orphans,
                   emitted, manual, ticks>>

(* Cron expressions: the five patterns getNextRunTime knows, one that matches *)
(* none of them, and a string cron.validate rejects                          *)
EveryMinute == "* * * * *"
Hourly == "0 * * * *"
Daily == "0 0 * * *"
Weekly == "0 0 * * 0"
Monthly == "0 0 1 * *"
OtherPattern == "*/7 * * * *"
InvalidCron == "not a cron expression"

(* A cron.validate that accepts every string *)
validateAnything(cronExpression) == TRUE

(* cron.validate(cronExpression) *)
validate(cronExpression) == cronExpression # InvalidCron

(* cronExpression.split(' '): the five fields *)
split(cronExpression) ==
    CASE cronExpression = EveryMinute  -> <<"*", "*", "*", "*", "*">>
      [] cronExpression = Hourly       -> <<"0", "*", "*", "*", "*">>
      [] cronExpression = Daily        -> <<"0", "0", "*", "*", "*">>
      [] cronExpression = Weekly       -> <<"0", "0", "*", "*", "0">>
      [] cronExpression = Monthly      -> <<"0", "0", "1", "*", "*">>
      [] cronExpression = OtherPattern -> <<"*/7", "*", "*", "*", "*">>

(* A Date is its time value: the milliseconds since 1970-01-01T00:00:00Z.    *)
(* Its fields are read and written in the time zone of the process, here     *)
(* UTC, and in the year 1970.                                                *)
Second == 1000
Minute == 60000
Hour == 3600000
Day == 86400000

(* The day of the year on which each month of 1970 starts, and the end of   *)
(* the year                                                                  *)
MonthStart == <<0, 31, 59, 90, 120, 151, 181, 212, 243, 273, 304, 334, 365>>

getMinutes(d) == (d % Hour) \div Minute
getHours(d) == (d % Day) \div Hour
(* 0 is Sunday; 1970-01-01 is a Thursday *)
getDay(d) == (4 + (d \div Day)) % 7
(* 0 is January *)
getMonth(d) ==
    CHOOSE m \in 0..11 : MonthStart[m + 1] <= d \div Day /\ d \div Day < MonthStart[m + 2]
getDate(d) == (d \div Day) - MonthStart[getMonth(d) + 1] + 1

(* The setters give the new time value; a field out of its range carries     *)
(* over into the next field.  setMonth is called on the first of a month.    *)
setMilliseconds(d, ms) == d - (d % Second) + ms
setSeconds(d, sec) == d - ((d % Minute) \div Second) * Second + sec * Second
setMinutes(d, min) == d - getMinutes(d) * Minute + min * Minute
setHours(d, hours) == d - getHours(d) * Hour + hours * Hour
setDate(d, date) == d + (date - getDate(d)) * Day
setMonth(d, month) == d + (MonthStart[month + 1] - MonthStart[getMonth(d) + 1]) * Day

(* nextDate after the first lines of getNextRunTime: one minute after from,  *)
(* seconds and milliseconds cleared                                          *)
RoundForward(from) ==
    setMilliseconds(setSeconds(setMinutes(from, getMinutes(from) + 1), 0), 0)

(* A daily branch that leaves out setDate *)
DailyBranchSameDay(nextDate) == setHours(setMinutes(nextDate, 0), 0)

(* The branch of the daily pattern: midnight, of the next day *)
DailyBranch(nextDate) ==
    LET midnight == setHours(setMinutes(nextDate, 0), 0)
    IN  setDate(midnight, getDate(midnight) + 1)

(* getNextRunTime(cronExpression, from): the patterns are tried in the order *)
(* of the code, on the fields of the expression                              *)
getNextRunTime(cronExpression, from) ==
    LET parts == split(cronExpression)
        nextDate == RoundForward(from)
    IN  IF cronExpression = EveryMinute THEN nextDate
        ELSE IF parts[1] = "0" /\ parts[2] = "*"
        THEN LET onHour == setMinutes(nextDate, 0)
             IN  IF getMinutes(from) = 0
                 THEN setHours(onHour, getHours(onHour) + 1)
                 ELSE onHour
        ELSE IF parts[1] = "0" /\ parts[2] = "0" /\ parts[3] = "*"
        THEN DailyBranch(nextDate)
        ELSE IF parts[1] = "0" /\ parts[2] = "0" /\ parts[5] = "0"
        THEN LET midnight == setHours(setMinutes(nextDate, 0), 0)
             IN  setDate(midnight, getDate(midnight) + (7 - getDay(midnight)))
        ELSE IF parts[1] = "0" /\ parts[2] = "0" /\ parts[3] = "1"
        THEN LET first == setDate(setHours(setMinutes(nextDate, 0), 0), 1)
             IN  setMonth(first, getMonth(first) + 1)
        ELSE setMinutes(nextDate, getMinutes(nextDate) + 5)

(* The document createRecurringJob saves *)
createRecurringJob(name, cronExpression, options) ==
    [ name           |-> name,
      cronExpression |-> cronExpression,
      priority       |-> PriorityOrDefault(options.priority),
      maxRetries     |-> OrDefault(options.maxRetries, DefaultMaxRetries),
      retryDelay     |-> OrDefault(options.retryDelay, DefaultRetryDelay),
      timeout        |-> OrDefault(options.timeout, DefaultTimeout),
      lastExecutedAt |-> NoTime,
      isActive       |-> TRUE ]

InvalidCronExpression == "Invalid cron expression"

(* The id of the next definition saved: the store gives every document a new *)
(* id, never one it gave before, also when the document that had it has been *)
(* deleted; the definitions are numbered in the order they are saved         *)
NewRecurringId == recurringSaved + 1

(* scheduleRecurringJob(name, data, cronExpression, options), up to its      *)
(* first await: ensureInitialized, cron.validate, then createRecurringJob    *)
(* saves the definition under a new id.  The invocation is kept with that id *)
(* and with the arguments of the call.                                       *)
ScheduleRecurringJob(name, cronExpression, options) ==
    IF ~ensureInitialized THEN ThrowsNotInitialized("scheduleRecurringJob")
    ELSE IF ~validate(cronExpression)
    THEN /\ ret' = Returned("scheduleRecurringJob", InvalidCronExpression)
         /\ UNCHANGED <<initialized, driver, jobHandlers, schedulerOptions,
                        activeJobs, jobs, nextId, now, calls, execs, orphans,
                        emitted, mgmt, manual, ticks>>
    ELSE /\ IF ConnectionOpen
            THEN /\ recurringJobs' =
                       [i \in DOMAIN recurringJobs \cup {NewRecurringId} |->
                          IF i = NewRecurringId
                          THEN createRecurringJob(name, cronExpression, options)
                          ELSE recurringJobs[i]]
                 /\ mgmt' = BagAdd(mgmt,
                                   Management("scheduleRecurringJob", "recurring",
                                              NewRecurringId,
                                              Some([name |-> name,
                                                    cronExpression |-> cronExpression,
                                                    options |-> options]),
                                              TRUE))
                 /\ recurringSaved' = recurringSaved + 1
            ELSE /\ mgmt' = BagAdd(mgmt, Rejected("scheduleRecurringJob"))
                 /\ UNCHANGED <<recurringJobs, recurringSaved>>
         /\ UNCHANGED <<invoked, initialized, cronTask, cronTasks,
                        isConnected, checks, jobHandlers, schedulerOptions,
                        activeJobs, jobs, nextId, now, calls, execs, orphans,
                        emitted, ret, manual, ticks>>

(* scheduleRecurringJob after createRecurringJob: getNextRunTime from the    *)
(* present time, then createJob saves the first occurrence                   *)
ScheduleRecurringJobCreate(m) ==
    /\ BagCount(mgmt, m) > 0
    /\ m.op = "scheduleRecurringJob" /\ m.pc = "recurring"
    /\ IF ConnectionOpen
       THEN /\ LET call == m.job[1]
                   nextRunTime == getNextRunTime(call.cronExpression, now)
               IN  jobs' = [j \in DOMAIN jobs \cup {nextId} |->
                              IF j = nextId
                              THEN createJob(call.name, nextRunTime, call.options)
                              ELSE jobs[j]]
            /\ nextId' = nextId + 1
            /\ mgmt' = BagAdd(BagRemove(mgmt, m),
                              Management("scheduleRecurringJob", "created", nextId,
                                         Null, TRUE))
       ELSE /\ mgmt' = BagAdd(BagRemove(mgmt, m), Rejected("scheduleRecurringJob"))
            /\ UNCHANGED <<jobs, nextId>>
    /\ UNCHANGED <<initialized, driver, jobHandlers, schedulerOptions,
                   activeJobs, now, calls, execs, orphans, emitted, ret,
                   manual, ticks>>

(* scheduleRecurringJob after createJob: the event, and the return *)
ScheduleRecurringJobReturn(m) ==
    /\ BagCount(mgmt, m) > 0
    /\ m.op = "scheduleRecurringJob" /\ m.pc = "created"
    /\ emitted' = Emit(emitted, JOB_SCHEDULED, m.id)
    /\ ret' = Returned("scheduleRecurringJob", "job")
    /\ mgmt' = BagRemove(mgmt, m)
    /\ UNCHANGED <<initialized, driver, jobHandlers, schedulerOptions,
                   activeJobs, jobs, nextId, now, calls, execs, orphans,
                   manual, ticks>>

(* Time passes *)
AdvanceTime ==
    /\ now < MaxTime
    /\ now' = now + 1
    /\ UNCHANGED <<ticks, driver>>
    /\ UNCHANGED <<initialized, jobHandlers, schedulerOptions, activeJobs,
                   jobs, nextId, calls, execs, orphans, emitted, mgmt, ret,
                   manual>>

----------------------------------------------------------------------------
(* Scheduler.cancelJob *)

(* cancelJob, up to its first await: ensureInitialized, then getJobById *)
CancelJobCall(id) ==
    /\ IF ~ensureInitialized
       THEN /\ ret' = Returned("cancelJob", NotInitialized)
            /\ mgmt' = mgmt
       ELSE /\ mgmt' = BagAdd(mgmt, IF ConnectionOpen
                                    THEN Management("cancelJob", "read", id,
                                                    StatusRead(getJobById(jobs, id)),
                                                    FALSE)
                                    ELSE Rejected("cancelJob"))
            /\ ret' = ret
    /\ UNCHANGED <<ticks, driver>>
    /\ UNCHANGED <<initialized, jobHandlers, schedulerOptions, activeJobs,
                   jobs, nextId, now, calls, execs, orphans, emitted, manual>>

(* cancelJob with a check that leaves out the status condition *)
CancelAllowedAnyStatus(job) == job # Null

(* Whether cancelJob goes on to delete the job it read *)
CancelAllowed(job) == job # Null /\ job[1] = PENDING

(* cancelJob after getJobById: the two early returns, or deleteJob *)
CancelJobCheck(m) ==
    /\ BagCount(mgmt, m) > 0
    /\ m.op = "cancelJob" /\ m.pc = "read"
    /\ IF ~CancelAllowed(m.job)
       THEN /\ mgmt' = BagRemove(mgmt, m)
            /\ ret' = Returned("cancelJob", "false")
            /\ jobs' = jobs
       ELSE /\ mgmt' = BagAdd(BagRemove(mgmt, m),
                              IF ConnectionOpen
                              THEN [m EXCEPT !.pc = "deleted",
                                             !.success = deleteJobSuccess(jobs, m.id)]
                              ELSE Rejected("cancelJob"))
            /\ jobs' = deleteJob(jobs, m.id)
            /\ ret' = ret
    /\ UNCHANGED <<ticks, driver>>
    /\ UNCHANGED <<initialized, jobHandlers, schedulerOptions, activeJobs,
                   nextId, now, calls, execs, orphans, emitted, manual>>

(* cancelJob after deleteJob: the event on success, and the return *)
CancelJobReturn(m) ==
    /\ BagCount(mgmt, m) > 0
    /\ m.op = "cancelJob" /\ m.pc = "deleted"
    /\ emitted' = IF m.success THEN Emit(emitted, JOB_CANCELLED, m.id) ELSE emitted
    /\ ret' = Returned("cancelJob", IF m.success THEN "true" ELSE "false")
    /\ mgmt' = BagRemove(mgmt, m)
    /\ UNCHANGED <<ticks, driver>>
    /\ UNCHANGED <<initialized, jobHandlers, schedulerOptions, activeJobs,
                   jobs, nextId, now, calls, execs, orphans, manual>>

----------------------------------------------------------------------------
(* Scheduler.retryJob *)

(* retryJob, up to its first await: ensureInitialized, then getJobById *)
RetryJobCall(id) ==
    /\ IF ~ensureInitialized
       THEN /\ ret' = Returned("retryJob", NotInitialized)
            /\ mgmt' = mgmt
       ELSE /\ mgmt' = BagAdd(mgmt, IF ConnectionOpen
                                    THEN Management("retryJob", "read", id,
                                                    StatusRead(getJobById(jobs, id)),
                                                    FALSE)
                                    ELSE Rejected("retryJob"))
            /\ ret' = ret
    /\ UNCHANGED <<ticks, driver>>
    /\ UNCHANGED <<initialized, jobHandlers, schedulerOptions, activeJobs,
                   jobs, nextId, now, calls, execs, orphans, emitted, manual>>

(* retryJob with a test that lets every status through *)
RetryAllowedAnyStatus(job) == TRUE

(* Whether retryJob goes on to reset the job it read: its status is Failed *)
RetryAllowed(job) == job[1] = FAILED

(* retryJob after getJobById: null, the status error, or updateJobStatus(PENDING) *)
RetryJobAfterRead(m) ==
    /\ BagCount(mgmt, m) > 0
    /\ m.op = "retryJob" /\ m.pc = "read"
    /\ IF m.job = Null
       THEN /\ mgmt' = BagRemove(mgmt, m)
            /\ ret' = Returned("retryJob", "null")
            /\ UNCHANGED <<jobs, retried>>
       ELSE IF ~RetryAllowed(m.job)
       THEN /\ mgmt' = BagRemove(mgmt, m)
            /\ ret' = Returned("retryJob", "Cannot retry job with status")
            /\ UNCHANGED <<jobs, retried>>
       ELSE /\ mgmt' = BagAdd(BagRemove(mgmt, m),
                              IF ConnectionOpen
                              THEN [m EXCEPT !.pc = "updated",
                                             !.success = m.id \in DOMAIN jobs]
                              ELSE Rejected("retryJob"))
            /\ jobs' = updateJobStatus(jobs, m.id, PENDING, NoMessage, now)
            /\ retried' = IF ConnectionOpen THEN retried \cup {m.id} ELSE retried
            /\ ret' = ret
    /\ UNCHANGED <<ticks, driver>>
    /\ UNCHANGED <<initialized, jobHandlers, schedulerOptions, activeJobs,
                   nextId, now, calls, execs, orphans, emitted>>

(* The same step, in the runs that do not keep track of the resets *)
RetryJobCheck(m) == RetryJobAfterRead(m) /\ resetAt' = resetAt

(* The stored job is Failed and no automatic retry is left to it *)
BudgetUsedUp(job) ==
    /\ job # Null
    /\ job[1].status = FAILED
    /\ job[1].attempts >= job[1].maxRetries

(* The same step, noting the handler invocations so far when it resets a     *)
(* Failed job whose retry budget is used up                                  *)
RetryJobCheckNoted(m) ==
    /\ RetryJobAfterRead(m)
    /\ resetAt' = IF BudgetUsedUp(getJobById(jobs, m.id)) /\ jobs'[m.id].status = PENDING
                  THEN [resetAt EXCEPT ![m.id] = invoked[m.id]]
                  ELSE resetAt

(* retryJob after updateJobStatus: the event when a job came back, and the return *)
RetryJobReturn(m) ==
    /\ BagCount(mgmt, m) > 0
    /\ m.op = "retryJob" /\ m.pc = "updated"
    /\ emitted' = IF m.success THEN Emit(emitted, JOB_RETRIED, m.id) ELSE emitted
    /\ ret' = Returned("retryJob", IF m.success THEN "job" ELSE "null")
    /\ mgmt' = BagRemove(mgmt, m)
    /\ UNCHANGED <<ticks, driver>>
    /\ UNCHANGED <<initialized, jobHandlers, schedulerOptions, activeJobs,
                   jobs, nextId, now, calls, execs, orphans, manual>>

----------------------------------------------------------------------------
(* Scheduler.processNextJobs *)

(* activeJobs.size *)
ActiveSize == BagCardinality(activeJobs)

(* An availableSlots that leaves out the active count *)
AvailableSlotsAll == maxConcurrentJobs

(* availableSlots = maxConcurrentJobs - activeJobs.size *)
AvailableSlots == maxConcurrentJobs - ActiveSize

(* What processJob reads of a job handed to it: job.id and job.name *)
Selected(js, s) == [i \in 1..Len(s) |-> [id |-> s[i], name |-> js[s[i]].name]]

(* processNextJobs (a direct call), up to its await: ensureInitialized, the  *)
(* check of the cap, then getPendingJobs.  An invocation that finds nothing  *)
(* due does nothing further; one whose getPendingJobs is issued on a closed  *)
(* connection rejects and dispatches nothing.                                *)
ProcessNextJobs ==
    IF ~ensureInitialized THEN ThrowsNotInitialized("processNextJobs")
    ELSE
    /\ ~(ActiveSize >= maxConcurrentJobs)
    /\ IF ConnectionOpen
       THEN \E s \in getPendingJobs(jobs, now, AvailableSlots) :
               /\ s # <<>>
               /\ calls' = BagAdd(calls, [pendingJobs |-> Selected(jobs, s)])
       ELSE calls' = calls
    /\ ticks' = ticks + 1
    /\ UNCHANGED <<driver, initialized, jobHandlers, schedulerOptions,
                   activeJobs, jobs, nextId, now, execs, orphans, emitted,
                   mgmt, ret, manual>>

(* activeJobs.has(job.id).  job.id is the ObjectId object of the document    *)
(* that getPendingJobs has just read (toJSON sets ret.id = ret._id), and a   *)
(* Set holds objects by identity: no entry of the set is this object,        *)
(* whatever the ids the entries stand for.                                   *)
ProcessJobSkips(job) == FALSE

(* processJob(job), up to its first await: the active-set check, the handler *)
(* lookup, then updateJobStatus(FAILED) or updateJobStatus(RUNNING)          *)
ProcessJobNoHandler(job) == ~ProcessJobSkips(job) /\ job.name \notin jobHandlers
ProcessJobStarts(job) == ~ProcessJobSkips(job) /\ job.name \in jobHandlers

ProcessJobBegin(js, job) ==
    IF ProcessJobSkips(job) THEN js
    ELSE IF ProcessJobNoHandler(job)
         THEN updateJobStatus(js, job.id, FAILED, MsgNoHandler, now)
    ELSE updateJobStatus(js, job.id, RUNNING, NoMessage, now)

(* Where processJob is suspended after its first updateJobStatus: at the     *)
(* await of an operation that takes effect, or of one that will reject       *)
AfterStatusUpdate(pc) == IF ConnectionOpen THEN pc ELSE "statusRejected"

(* Where processJob goes on when a store operation issued inside the try     *)
(* block, or inside the catch block, rejects                                 *)
AfterRejection(path) == IF path = "catch" THEN "catchRejected" ELSE "tryRejected"

RECURSIVE ForEachJob(_, _)
ForEachJob(pendingJobs, js) ==
    IF pendingJobs = <<>> THEN js
    ELSE ForEachJob(Tail(pendingJobs), ProcessJobBegin(js, Head(pendingJobs)))

(* A processJob invocation suspended at an await *)
Exec(id, pc, path, retry) == [job |-> id, pc |-> pc, path |-> path, retry |-> retry]

(* processNextJobs after getPendingJobs: pendingJobs.forEach(processJob) *)
DispatchPendingJobs(c) ==
    /\ BagCount(calls, c) > 0
    /\ calls' = BagRemove(calls, c)
    /\ jobs' = ForEachJob(c.pendingJobs, jobs)
    /\ execs' = execs (+) SetToBag({Exec(job.id, AfterStatusUpdate("markRunning"),
                                          "none", FALSE) :
                                     job \in {r \in Range(c.pendingJobs) : ProcessJobStarts(r)}})
                     (+) SetToBag({Exec(job.id, AfterStatusUpdate("noHandler"),
                                          "none", FALSE) :
                                     job \in {r \in Range(c.pendingJobs) :
                                                ProcessJobNoHandler(r)}})
    /\ UNCHANGED <<ticks, driver>>
    /\ UNCHANGED <<initialized, jobHandlers, schedulerOptions, activeJobs,
                   nextId, now, orphans, emitted, mgmt, ret, manual>>

----------------------------------------------------------------------------
(* Scheduler.processJob, from its first await on *)

(* After updateJobStatus(FAILED) for a job without handler: processJob       *)
(* returns                                                                   *)
ExecNoHandlerEnds(e) ==
    /\ BagCount(execs, e) > 0 /\ e.pc = "noHandler"
    /\ execs' = BagRemove(execs, e)
    /\ UNCHANGED <<ticks, driver>>
    /\ UNCHANGED <<initialized, jobHandlers, schedulerOptions, activeJobs,
                   jobs, nextId, now, calls, orphans, emitted, mgmt, ret,
                   manual>>

(* After updateJobStatus(RUNNING): activeJobs.add, then incrementJobAttempts *)
ExecAddActive(e) ==
    /\ BagCount(execs, e) > 0 /\ e.pc = "markRunning"
    /\ activeJobs' = BagAdd(activeJobs, e.job)
    /\ jobs' = incrementJobAttempts(jobs, e.job)
    /\ execs' = BagAdd(BagRemove(execs, e),
                       [e EXCEPT !.pc = IF ConnectionOpen THEN "incremented"
                                        ELSE "incrementRejected"])
    /\ UNCHANGED <<ticks, driver>>
    /\ UNCHANGED <<initialized, jobHandlers, schedulerOptions, nextId, now,
                   calls, orphans, emitted, mgmt, ret, manual>>

(* After incrementJobAttempts: JOB_STARTED, then the handler raced with the timer *)
ExecStartHandler(e) ==
    /\ BagCount(execs, e) > 0 /\ e.pc = "incremented"
    /\ emitted' = Emit(emitted, JOB_STARTED, e.job)
    /\ invoked' = [invoked EXCEPT ![e.job] = invoked[e.job] + 1]
    /\ execs' = BagAdd(BagRemove(execs, e), [e EXCEPT !.pc = "handler"])
    /\ UNCHANGED <<ticks, tickDriver>>
    /\ UNCHANGED <<initialized, jobHandlers, schedulerOptions, activeJobs,
                   jobs, nextId, now, calls, orphans, mgmt, ret, manual>>

(* processJob after the catch block has issued updateJobStatus(FAILED) *)
CatchBlock(e) ==
    IF ConnectionOpen THEN [e EXCEPT !.pc = "failed", !.path = "catch"]
    ELSE [e EXCEPT !.pc = AfterRejection("catch")]

(* The handler resolves with success: updateJobStatus(COMPLETED) *)
HandlerSucceeds(e) ==
    /\ BagCount(execs, e) > 0 /\ e.pc = "handler"
    /\ jobs' = updateJobStatus(jobs, e.job, COMPLETED, NoMessage, now)
    /\ execs' = BagAdd(BagRemove(execs, e),
                       [e EXCEPT !.pc = IF ConnectionOpen THEN "completed"
                                        ELSE AfterRejection("none")])
    /\ UNCHANGED <<ticks, driver>>
    /\ UNCHANGED <<initialized, jobHandlers, schedulerOptions, activeJobs,
                   nextId, now, calls, orphans, emitted, mgmt, ret, manual>>

(* The handler resolves with success false: updateJobStatus(FAILED, message) *)
HandlerFails(e) ==
    /\ BagCount(execs, e) > 0 /\ e.pc = "handler"
    /\ jobs' = updateJobStatus(jobs, e.job, FAILED, MsgHandler, now)
    /\ execs' = BagAdd(BagRemove(execs, e),
                       IF ConnectionOpen THEN [e EXCEPT !.pc = "failed", !.path = "result"]
                       ELSE [e EXCEPT !.pc = AfterRejection("result")])
    /\ UNCHANGED <<ticks, driver>>
    /\ UNCHANGED <<initialized, jobHandlers, schedulerOptions, activeJobs,
                   nextId, now, calls, orphans, emitted, mgmt, ret, manual>>

(* The handler throws or rejects: the catch block's updateJobStatus(FAILED, message) *)
HandlerThrows(e) ==
    /\ BagCount(execs, e) > 0 /\ e.pc = "handler"
    /\ jobs' = updateJobStatus(jobs, e.job, FAILED, MsgHandler, now)
    /\ execs' = BagAdd(BagRemove(execs, e), CatchBlock(e))
    /\ UNCHANGED <<ticks, driver>>
    /\ UNCHANGED <<initialized, jobHandlers, schedulerOptions, activeJobs,
                   nextId, now, calls, orphans, emitted, mgmt, ret, manual>>

(* The timer wins the race: the catch block runs, the handler is not aborted *)
HandlerTimesOut(e) ==
    /\ BagCount(execs, e) > 0 /\ e.pc = "handler"
    /\ jobs' = updateJobStatus(jobs, e.job, FAILED, MsgTimeout, now)
    /\ execs' = BagAdd(BagRemove(execs, e), CatchBlock(e))
    /\ orphans' = BagAdd(orphans, e.job)
    /\ UNCHANGED <<ticks, driver>>
    /\ UNCHANGED <<initialized, jobHandlers, schedulerOptions, activeJobs,
                   nextId, now, calls, emitted, mgmt, ret, manual>>

(* A handler invocation that lost the race settles; nobody reads its result *)
OrphanSettles(id) ==
    /\ BagCount(orphans, id) > 0
    /\ orphans' = BagRemove(orphans, id)
    /\ UNCHANGED <<ticks, driver>>
    /\ UNCHANGED <<initialized, jobHandlers, schedulerOptions, activeJobs,
                   jobs, nextId, now, calls, execs, emitted, mgmt, ret,
                   manual>>

(* After updateJobStatus(COMPLETED): JOB_COMPLETED, then the finally block *)
ExecCompleted(e) ==
    /\ BagCount(execs, e) > 0 /\ e.pc = "completed"
    /\ emitted' = Emit(emitted, JOB_COMPLETED, e.job)
    /\ activeJobs' = BagRemove(activeJobs, e.job)
    /\ execs' = BagRemove(execs, e)
    /\ UNCHANGED <<ticks, driver>>
    /\ UNCHANGED <<initialized, jobHandlers, schedulerOptions, jobs, nextId,
                   now, calls, orphans, mgmt, ret, manual>>

(* The retry test on the job read back: updatedJob && attempts < maxRetries *)
ShouldRetry(updatedJob) ==
    updatedJob # Null /\ updatedJob[1].attempts < updatedJob[1].maxRetries

(* After updateJobStatus(FAILED): getJobById *)
ExecReadBack(e) ==
    /\ BagCount(execs, e) > 0 /\ e.pc = "failed"
    /\ execs' = BagAdd(BagRemove(execs, e),
                       IF ConnectionOpen
                       THEN [e EXCEPT !.pc = "read",
                                      !.retry = ShouldRetry(getJobById(jobs, e.job))]
                       ELSE [e EXCEPT !.pc = AfterRejection(e.path)])
    /\ UNCHANGED <<ticks, driver>>
    /\ UNCHANGED <<initialized, jobHandlers, schedulerOptions, activeJobs,
                   jobs, nextId, now, calls, orphans, emitted, mgmt, ret,
                   manual>>

(* After getJobById, when the job is retried: updateJobStatus(PENDING) *)
ExecRetry(e) ==
    /\ BagCount(execs, e) > 0 /\ e.pc = "read" /\ e.retry
    /\ jobs' = updateJobStatus(jobs, e.job, PENDING, NoMessage, now)
    /\ execs' = BagAdd(BagRemove(execs, e),
                       [e EXCEPT !.pc = IF ~ConnectionOpen THEN AfterRejection(e.path)
                                        ELSE IF e.path = "result" THEN "pending"
                                        ELSE "requeued"])
    /\ UNCHANGED <<ticks, driver>>
    /\ UNCHANGED <<initialized, jobHandlers, schedulerOptions, activeJobs,
                   nextId, now, calls, orphans, emitted, mgmt, ret, manual>>

(* The failure-result branch issues updateJobStatus(PENDING) a second time *)
ExecRetryAgain(e) ==
    /\ BagCount(execs, e) > 0 /\ e.pc = "pending"
    /\ jobs' = updateJobStatus(jobs, e.job, PENDING, NoMessage, now)
    /\ execs' = BagAdd(BagRemove(execs, e),
                       [e EXCEPT !.pc = IF ConnectionOpen THEN "requeued"
                                        ELSE AfterRejection(e.path)])
    /\ UNCHANGED <<ticks, driver>>
    /\ UNCHANGED <<initialized, jobHandlers, schedulerOptions, activeJobs,
                   nextId, now, calls, orphans, emitted, mgmt, ret, manual>>

(* The end of a failed execution: JOB_FAILED, then the finally block *)
ExecFailedEnds(e) ==
    /\ BagCount(execs, e) > 0
    /\ \/ e.pc = "read" /\ ~e.retry
       \/ e.pc = "requeued"
    /\ emitted' = Emit(emitted, JOB_FAILED, e.job)
    /\ activeJobs' = BagRemove(activeJobs, e.job)
    /\ execs' = BagRemove(execs, e)
    /\ UNCHANGED <<ticks, driver>>
    /\ UNCHANGED <<initialized, jobHandlers, schedulerOptions, jobs, nextId,
                   now, calls, orphans, mgmt, ret, manual>>

----------------------------------------------------------------------------
(* Scheduler.processJob when the store connection is closed *)

(* The first updateJobStatus of processJob rejects: the await is before the  *)
(* try block, so processJob ends there, and the catch of processNextJobs     *)
(* logs the error                                                            *)
StatusUpdateRejects(e) ==
    /\ BagCount(execs, e) > 0 /\ e.pc = "statusRejected"
    /\ execs' = BagRemove(execs, e)
    /\ UNCHANGED <<ticks, driver>>
    /\ UNCHANGED <<initialized, jobHandlers, schedulerOptions, activeJobs,
                   jobs, nextId, now, calls, orphans, emitted, mgmt, ret,
                   manual>>

(* A store operation issued inside the try block rejects: the catch block    *)
(* runs, updateJobStatus(FAILED, message)                                    *)
ExecCatch(e) ==
    /\ BagCount(execs, e) > 0 /\ e.pc = "tryRejected"
    /\ jobs' = updateJobStatus(jobs, e.job, FAILED, MsgStore, now)
    /\ execs' = BagAdd(BagRemove(execs, e), CatchBlock(e))
    /\ UNCHANGED <<ticks, driver>>
    /\ UNCHANGED <<initialized, jobHandlers, schedulerOptions, activeJobs,
                   nextId, now, calls, orphans, emitted, mgmt, ret, manual>>

(* A store operation issued inside the catch block rejects: the error leaves *)
(* processJob through the finally block, and no JOB_FAILED is published      *)
ExecCatchRejects(e) ==
    /\ BagCount(execs, e) > 0 /\ e.pc = "catchRejected"
    /\ activeJobs' = BagRemove(activeJobs, e.job)
    /\ execs' = BagRemove(execs, e)
    /\ UNCHANGED <<ticks, driver>>
    /\ UNCHANGED <<initialized, jobHandlers, schedulerOptions, jobs, nextId,
                   now, calls, orphans, emitted, mgmt, ret, manual>>

----------------------------------------------------------------------------
(* Scheduler.processJob when an event subscriber or the store throws *)

(* After updateJobStatus(RUNNING), with a store that will reject the         *)
(* increment: activeJobs.add, then incrementJobAttempts is issued and leaves *)
(* the document as it is; processJob waits for its answer                    *)
ExecAddActiveRejecting(e) ==
    /\ BagCount(execs, e) > 0 /\ e.pc = "markRunning"
    /\ activeJobs' = BagAdd(activeJobs, e.job)
    /\ execs' = BagAdd(BagRemove(execs, e), [e EXCEPT !.pc = "incrementRejected"])
    /\ UNCHANGED <<ticks, driver>>
    /\ UNCHANGED <<initialized, jobHandlers, schedulerOptions, jobs, nextId,
                   now, calls, orphans, emitted, mgmt, ret, manual>>

(* incrementJobAttempts rejects: the await is after activeJobs.add and       *)
(* before the try block, so processJob ends there and its finally block does *)
(* not run                                                                   *)
IncrementAttemptsRejects(e) ==
    /\ BagCount(execs, e) > 0 /\ e.pc = "incrementRejected"
    /\ execs' = BagRemove(execs, e)
    /\ UNCHANGED <<ticks, driver>>
    /\ UNCHANGED <<initialized, jobHandlers, schedulerOptions, activeJobs,
                   jobs, nextId, now, calls, orphans, emitted, mgmt, ret,
                   manual>>

(* A JOB_STARTED subscriber throws: emit is called before the try block, so  *)
(* processJob ends there and its finally block does not run                  *)
StartedSubscriberThrows(e) ==
    /\ BagCount(execs, e) > 0 /\ e.pc = "incremented"
    /\ emitted' = Emit(emitted, JOB_STARTED, e.job)
    /\ execs' = BagRemove(execs, e)
    /\ UNCHANGED <<ticks, driver>>
    /\ UNCHANGED <<initialized, jobHandlers, schedulerOptions, activeJobs,
                   jobs, nextId, now, calls, orphans, mgmt, ret, manual>>

(* A JOB_COMPLETED subscriber throws: emit is called inside the try block,   *)
(* so the catch block runs: updateJobStatus(FAILED, message)                 *)
CompletedSubscriberThrows(e) ==
    /\ BagCount(execs, e) > 0 /\ e.pc = "completed"
    /\ emitted' = Emit(emitted, JOB_COMPLETED, e.job)
    /\ jobs' = updateJobStatus(jobs, e.job, FAILED, MsgSubscriber, now)
    /\ execs' = BagAdd(BagRemove(execs, e), CatchBlock(e))
    /\ UNCHANGED <<ticks, driver>>
    /\ UNCHANGED <<initialized, jobHandlers, schedulerOptions, activeJobs,
                   nextId, now, calls, orphans, mgmt, ret, manual>>

(* A JOB_FAILED subscriber throws: in the failure-result branch the catch    *)
(* block runs; in the catch block the error leaves processJob through the    *)
(* finally block                                                             *)
FailedSubscriberThrows(e) ==
    /\ BagCount(execs, e) > 0
    /\ \/ e.pc = "read" /\ ~e.retry
       \/ e.pc = "requeued"
    /\ emitted' = Emit(emitted, JOB_FAILED, e.job)
    /\ IF e.path = "result"
       THEN /\ jobs' = updateJobStatus(jobs, e.job, FAILED, MsgSubscriber, now)
            /\ execs' = BagAdd(BagRemove(execs, e), CatchBlock(e))
            /\ activeJobs' = activeJobs
       ELSE /\ jobs' = jobs
            /\ execs' = BagRemove(execs, e)
            /\ activeJobs' = BagRemove(activeJobs, e.job)
    /\ UNCHANGED <<ticks, driver>>
    /\ UNCHANGED <<initialized, jobHandlers, schedulerOptions, nextId, now,
                   calls, orphans, mgmt, ret, manual>>

----------------------------------------------------------------------------
(* RecurringJobRepository and Scheduler.checkRecurringJobs *)

(* A find that leaves out the isActive condition *)
ActiveFilterAll(rs) == DOMAIN rs

(* The filter of getActiveRecurringJobs: { isActive: true } *)
ActiveFilter(rs) == {i \in DOMAIN rs : rs[i].isActive}

(* The ids of a set, in the order they were given *)
RECURSIVE InOrder(_)
InOrder(ids) ==
    IF ids = {} THEN <<>>
    ELSE LET first == CHOOSE i \in ids : \A k \in ids : i <= k
         IN  <<first>> \o InOrder(ids \ {first})

(* getActiveRecurringJobs: the documents found, each with its id *)
getActiveRecurringJobs(rs) ==
    LET found == InOrder(ActiveFilter(rs))
    IN  [k \in 1..Len(found) |-> [id |-> found[k], doc |-> rs[found[k]]]]

(* updateLastExecutedAt(jobId, lastExecutedAt): nothing when the definition  *)
(* is not in the collection                                                  *)
updateLastExecutedAt(rs, id, lastExecutedAt) ==
    IF ConnectionOpen /\ id \in DOMAIN rs THEN [rs EXCEPT ![id].lastExecutedAt = lastExecutedAt] ELSE rs

(* updateRecurringJob(jobId, updates): findByIdAndUpdate sets the fields of  *)
(* updates; nothing when the definition is not in the collection             *)
updateRecurringJob(rs, id, updates) ==
    IF ConnectionOpen /\ id \in DOMAIN rs
    THEN [rs EXCEPT ![id] = [f \in DOMAIN rs[id] |->
                               IF f \in DOMAIN updates THEN updates[f] ELSE rs[id][f]]]
    ELSE rs

(* deleteRecurringJob(jobId): deleteOne *)
deleteRecurringJob(rs, id) ==
    IF ConnectionOpen THEN [i \in DOMAIN rs \ {id} |-> rs[i]] ELSE rs

(* updateRecurringJob(jobId, updates), called by the application *)
UpdateRecurringJob(id, updates) ==
    /\ recurringJobs' = updateRecurringJob(recurringJobs, id, updates)
    /\ UNCHANGED <<invoked, recurringSaved, initialized, cronTask, cronTasks,
                   isConnected, checks, jobHandlers, schedulerOptions,
                   activeJobs, jobs, nextId, now, calls, execs, orphans,
                   emitted, mgmt, ret, manual, ticks>>

(* deleteRecurringJob(jobId), called by the application *)
DeleteRecurringJob(id) ==
    /\ recurringJobs' = deleteRecurringJob(recurringJobs, id)
    /\ UNCHANGED <<invoked, recurringSaved, initialized, cronTask, cronTasks,
                   isConnected, checks, jobHandlers, schedulerOptions,
                   activeJobs, jobs, nextId, now, calls, execs, orphans,
                   emitted, mgmt, ret, manual, ticks>>

(* A checkRecurringJobs invocation suspended at an await: the list it read,  *)
(* the place in it of the definition at hand, and the `now` it took for it   *)
Check(pc, activeRecurringJobs, i, at) ==
    [pc |-> pc, activeRecurringJobs |-> activeRecurringJobs, i |-> i, at |-> at]

(* A tick of a cron task: its callback starts with checkRecurringJobs, up to *)
(* its first await: getActiveRecurringJobs.  Issued on a closed connection   *)
(* it rejects, outside the try block of the loop: checkRecurringJobs and the *)
(* callback end there.                                                       *)
CronTick ==
    /\ cronTasks > 0
    /\ checks' = IF ConnectionOpen
                 THEN BagAdd(checks, Check("list", getActiveRecurringJobs(recurringJobs),
                                           0, NoTime))
                 ELSE checks
    /\ UNCHANGED <<invoked, initialized, cronTask, cronTasks, isConnected,
                   recurringJobs, recurringSaved, jobHandlers,
                   schedulerOptions, activeJobs, jobs, nextId, now, calls,
                   execs, orphans, emitted, mgmt, ret, manual, ticks>>

(* Whether the loop body creates a job for a definition read: it has no      *)
(* lastExecutedAt, or its next run time after lastExecutedAt is not after at *)
NeedsJob(recurringJob, at) ==
    \/ recurringJob.lastExecutedAt = NoTime
    \/ getNextRunTime(recurringJob.cronExpression, recurringJob.lastExecutedAt) <= at

(* The place from i on of the first definition of the list that needs a job, *)
(* or the place after the end of the list                                    *)
RECURSIVE NextToCreate(_, _, _)
NextToCreate(list, i, at) ==
    IF i > Len(list) \/ NeedsJob(list[i].doc, at) THEN i
    ELSE NextToCreate(list, i + 1, at)

(* The run time of the job the loop body creates *)
NextRunTimeOf(recurringJob, at) ==
    IF recurringJob.lastExecutedAt = NoTime
    THEN getNextRunTime(recurringJob.cronExpression, at)
    ELSE getNextRunTime(recurringJob.cronExpression, recurringJob.lastExecutedAt)

(* checkRecurringJobs after getActiveRecurringJobs or updateLastExecutedAt,  *)
(* or after the catch block of the loop body: the loop goes on, past the     *)
(* definitions that are not due, to the next createJob.  A createJob issued  *)
(* on a closed connection rejects into the catch block.  At the end of the   *)
(* list checkRecurringJobs returns to the callback that awaits it.           *)
CheckRecurringJobsLoop(c) ==
    /\ BagCount(checks, c) > 0
    /\ c.pc \in {"list", "updated", "caught"}
    /\ LET list == c.activeRecurringJobs
           k    == NextToCreate(list, c.i + 1, now)
       IN  IF k > Len(list)
           THEN /\ checks' = BagAdd(BagRemove(checks, c), [c EXCEPT !.pc = "returned"])
                /\ UNCHANGED <<jobs, nextId>>
           ELSE IF ~ConnectionOpen
           THEN /\ checks' = BagAdd(BagRemove(checks, c),
                                    Check("caught", list, k, NoTime))
                /\ UNCHANGED <<jobs, nextId>>
           ELSE LET r == list[k].doc
                IN  /\ jobs' = [j \in DOMAIN jobs \cup {nextId} |->
                                  IF j = nextId
                                  THEN createJob(r.name, NextRunTimeOf(r, now),
                                                 [priority   |-> r.priority,
                                                  maxRetries |-> r.maxRetries,
                                                  retryDelay |-> r.retryDelay,
                                                  timeout    |-> r.timeout])
                                  ELSE jobs[j]]
                    /\ nextId' = nextId + 1
                    /\ checks' = BagAdd(BagRemove(checks, c),
                                        Check("created", list, k,
                                              IF r.lastExecutedAt = NoTime
                                              THEN NoTime ELSE now))
    /\ UNCHANGED <<invoked, initialized, cronTask, cronTasks, isConnected,
                   recurringJobs, recurringSaved, jobHandlers,
                   schedulerOptions, activeJobs, now, calls, execs, orphans,
                   emitted, mgmt, ret, manual, ticks>>

(* The callback of the cron task after checkRecurringJobs has returned:      *)
(* processNextJobs, up to its await.  What processNextJobs throws on an      *)
(* engine that is not initialized, or when getPendingJobs rejects, is caught *)
(* by nobody.                                                                *)
CronProcessNextJobs(c) ==
    /\ BagCount(checks, c) > 0
    /\ c.pc = "returned"
    /\ checks' = BagRemove(checks, c)
    /\ ticks' = ticks + 1
    /\ IF ensureInitialized /\ ~(ActiveSize >= maxConcurrentJobs) /\ ConnectionOpen
       THEN \E s \in getPendingJobs(jobs, now, AvailableSlots) :
               calls' = IF s = <<>> THEN calls
                        ELSE BagAdd(calls, [pendingJobs |-> Selected(jobs, s)])
       ELSE calls' = calls
    /\ UNCHANGED <<invoked, initialized, cronTask, cronTasks, isConnected,
                   recurringJobs, recurringSaved, jobHandlers,
                   schedulerOptions, activeJobs, jobs, nextId, now, execs,
                   orphans, emitted, mgmt, ret, manual>>

(* checkRecurringJobs after createJob: updateLastExecutedAt, with new Date() *)
(* for a definition that had no lastExecutedAt, with the `now` taken before  *)
(* createJob otherwise; issued on a closed connection it rejects into the    *)
(* catch block of the loop body                                              *)
CheckRecurringJobsUpdate(c) ==
    /\ BagCount(checks, c) > 0
    /\ c.pc = "created"
    /\ recurringJobs' = updateLastExecutedAt(recurringJobs, c.activeRecurringJobs[c.i].id,
                                             IF c.at = NoTime THEN now ELSE c.at)
    /\ checks' = BagAdd(BagRemove(checks, c),
                        [c EXCEPT !.pc = IF ConnectionOpen THEN "updated" ELSE "caught"])
    /\ UNCHANGED <<invoked, recurringSaved, initialized, cronTask, cronTasks,
                   isConnected, jobHandlers, schedulerOptions, activeJobs,
                   jobs, nextId, now, calls, execs, orphans, emitted, mgmt,
                   ret, manual, ticks>>

----------------------------------------------------------------------------
(* The specification *)

NoJobs == [j \in {} |-> 0]

(* The id of the first document saved *)
FirstId == 1
NoEvents == [k \in SchedulerEvent |-> [j \in JobIds |-> 0]]
NoInvocations == [j \in JobIds |-> 0]

(* No job has been reset by retryJob *)
NotReset == -1
NeverReset == [j \in JobIds |-> NotReset]

(* What the constructor keeps of the options it is given *)
SchedulerOptions(options) ==
    [maxConcurrentJobs |->
        OrDefault(options.maxConcurrentJobs, DefaultMaxConcurrentJobs)]

(* The state after new Scheduler(options), with an empty job collection *)
Constructed(options) ==
    /\ schedulerOptions = SchedulerOptions(options)
    /\ initialized = FALSE
    /\ cronTask = FALSE
    /\ cronTasks = 0
    /\ isConnected = FALSE
    /\ recurringJobs = <<>>
    /\ recurringSaved = 0
    /\ checks = EmptyBag
    /\ jobHandlers = {}
    /\ activeJobs = EmptyBag
    /\ jobs = NoJobs
    /\ nextId = FirstId
    /\ now = 0
    /\ calls = EmptyBag
    /\ execs = EmptyBag
    /\ orphans = EmptyBag
    /\ emitted = NoEvents
    /\ invoked = NoInvocations
    /\ mgmt = EmptyBag
    /\ ret = NoReturn
    /\ retried = {}
    /\ resetAt = NeverReset
    /\ ticks = 0

(* The engine is constructed with maxConcurrentJobs: 1 *)
Init == Constructed([maxConcurrentJobs |-> 1])

(* The engine is constructed with each of the other maxConcurrentJobs        *)
(* values under study: left out and 0, which both give the default, and 2    *)
MaxConcurrentJobsInputs == {Undefined, 0, 2}
InitConcurrent ==
    \E n \in MaxConcurrentJobsInputs : Constructed([maxConcurrentJobs |-> n])

(* The options callers give scheduleJob *)
PriorityInputs == {LOW, HIGH}
MaxRetriesInputs == {1, 2}
JobOptions ==
    [priority : PriorityInputs, maxRetries : MaxRetriesInputs, retryDelay : {Undefined},
     timeout : {Undefined}]

(* The initialize() calls in flight *)
InitializeCount ==
    BagCardinality([m \in {x \in BagToSet(mgmt) : x.op = "initialize"} |-> mgmt[m]])

(* The application initializes the engine once *)
Startup ==
    \/ ~initialized /\ InitializeCount = 0 /\ Initialize
    \/ \E m \in BagToSet(mgmt) : InitializeConnected(m)
    \/ \E m \in BagToSet(mgmt) : InitializeReturn(m)

(* The steps of the processJob invocations and of the handlers *)
ExecStep ==
    \/ \E e \in BagToSet(execs) : ExecAddActive(e)
    \/ \E e \in BagToSet(execs) : ExecStartHandler(e)
    \/ \E e \in BagToSet(execs) : HandlerSucceeds(e)
    \/ \E e \in BagToSet(execs) : HandlerFails(e)
    \/ \E e \in BagToSet(execs) : HandlerThrows(e)
    \/ \E e \in BagToSet(execs) : HandlerTimesOut(e)
    \/ \E e \in BagToSet(execs) : ExecCompleted(e)
    \/ \E e \in BagToSet(execs) : ExecReadBack(e)
    \/ \E e \in BagToSet(execs) : ExecRetry(e)
    \/ \E e \in BagToSet(execs) : ExecRetryAgain(e)
    \/ \E e \in BagToSet(execs) : ExecFailedEnds(e)
    \/ \E id \in BagToSet(orphans) : OrphanSettles(id)
    \/ \E e \in BagToSet(execs) : ExecNoHandlerEnds(e)

(* The cron task's ticks and direct processNextJobs calls, which may overlap *)
OverlappingTicks ==
    \/ ticks < MaxTicks /\ BagCardinality(calls) < MaxCalls /\ ProcessNextJobs
    \/ \E c \in BagToSet(calls) : DispatchPendingJobs(c)

(* The engine with its callers: jobs are scheduled, the handler is           *)
(* registered, time passes, ticks and direct processNextJobs calls overlap.  *)
Next ==
    \/ Startup
    \/ RegisterJobHandler(KnownName)
    \/ \E t \in Times, o \in JobOptions :
          nextId <= MaxJobs /\ ScheduleJob(KnownName, t, o)
    \/ \E m \in BagToSet(mgmt) : ScheduleJobReturn(m)
    \/ AdvanceTime
    \/ OverlappingTicks
    \/ ExecStep

Spec == Init /\ [][Next]_vars

(* The same engine constructed with each maxConcurrentJobs under study, with *)
(* processNextJobs invocations that do not overlap                           *)
NextConcurrent ==
    \/ Startup
    \/ RegisterJobHandler(KnownName)
    \/ \E t \in Times, o \in JobOptions :
          nextId <= MaxJobs /\ ScheduleJob(KnownName, t, o)
    \/ \E m \in BagToSet(mgmt) : ScheduleJobReturn(m)
    \/ AdvanceTime
    \/ ticks < MaxTicks /\ calls = EmptyBag /\ ProcessNextJobs
    \/ \E c \in BagToSet(calls) : DispatchPendingJobs(c)
    \/ ExecStep

SpecConcurrent == InitConcurrent /\ [][NextConcurrent]_vars

(* One job in the collection, and more invocations of processNextJobs *)
NextOneJob ==
    \/ Startup
    \/ RegisterJobHandler(KnownName)
    \/ \E t \in Times, o \in JobOptions :
          jobs = NoJobs /\ nextId <= MaxJobs /\ ScheduleJob(KnownName, t, o)
    \/ \E m \in BagToSet(mgmt) : ScheduleJobReturn(m)
    \/ AdvanceTime
    \/ ticks < MaxTicksOneJob /\ BagCardinality(calls) < MaxCalls /\ ProcessNextJobs
    \/ \E c \in BagToSet(calls) : DispatchPendingJobs(c)
    \/ ExecStep

SpecOneJob == Init /\ [][NextOneJob]_vars

(* One job in the collection, and processNextJobs invocations that do not    *)
(* overlap: each returns before the next one starts                          *)
NextSequential ==
    \/ Startup
    \/ RegisterJobHandler(KnownName)
    \/ \E t \in Times, o \in JobOptions :
          jobs = NoJobs /\ nextId <= MaxJobs /\ ScheduleJob(KnownName, t, o)
    \/ \E m \in BagToSet(mgmt) : ScheduleJobReturn(m)
    \/ AdvanceTime
    \/ ticks < MaxTicks /\ calls = EmptyBag /\ ProcessNextJobs
    \/ \E c \in BagToSet(calls) : DispatchPendingJobs(c)
    \/ ExecStep

SpecSequential == Init /\ [][NextSequential]_vars

(* What the event loop runs for sure: the code of processJob after each of   *)
(* its awaits, the delivery of a rejection, and the timer of the race.  A    *)
(* handler may never resolve.                                                *)
Continuation ==
    \E e \in BagToSet(execs) :
       \/ ExecNoHandlerEnds(e)
       \/ ExecAddActive(e)
       \/ IncrementAttemptsRejects(e)
       \/ ExecStartHandler(e)
       \/ HandlerTimesOut(e)
       \/ ExecCompleted(e)
       \/ ExecReadBack(e)
       \/ ExecRetry(e)
       \/ ExecRetryAgain(e)
       \/ ExecFailedEnds(e)

(* The steps at which a subscriber or the store throws *)
FaultStep ==
    \/ \E e \in BagToSet(execs) : ExecAddActiveRejecting(e)
    \/ \E e \in BagToSet(execs) : IncrementAttemptsRejects(e)
    \/ \E e \in BagToSet(execs) : StartedSubscriberThrows(e)
    \/ \E e \in BagToSet(execs) : CompletedSubscriberThrows(e)
    \/ \E e \in BagToSet(execs) : FailedSubscriberThrows(e)

(* The same, with event subscribers and store operations that may throw *)
NextFaults ==
    \/ NextSequential
    \/ FaultStep

SpecFaults == Init /\ [][NextFaults]_vars

(* The runs of SpecFaults in which the event loop goes on *)
SpecTimeout == Init /\ [][NextFaults]_vars /\ WF_vars(Continuation)

(* The cancelJob invocations in flight *)
CancelCount ==
    BagCardinality([m \in {x \in BagToSet(mgmt) : x.op = "cancelJob"} |-> mgmt[m]])

(* cancelJob calls, which may overlap each other and the execution of the    *)
(* job, for ids that are or are not in the collection                        *)
CancelJobStep ==
    \/ \E id \in 1..MaxCancelJobs : CancelCount < MaxCancels /\ CancelJobCall(id)
    \/ \E m \in BagToSet(mgmt) : CancelJobCheck(m)
    \/ \E m \in BagToSet(mgmt) : CancelJobReturn(m)

(* Jobs due at once or later are scheduled, one in the collection at a time, *)
(* dispatched by processNextJobs invocations that do not overlap, and        *)
(* cancelled                                                                 *)
NextCancel ==
    \/ Startup
    \/ RegisterJobHandler(KnownName)
    \/ \E t \in Times :
          jobs = NoJobs /\ nextId <= MaxCancelJobs
          /\ ScheduleJob(KnownName, t, [priority |-> NoPriority, maxRetries |-> 2,
                                        retryDelay |-> Undefined,
                                        timeout |-> Undefined])
    \/ \E m \in BagToSet(mgmt) : ScheduleJobReturn(m)
    \/ ticks < MaxCancelTicks /\ calls = EmptyBag /\ ProcessNextJobs
    \/ \E c \in BagToSet(calls) : DispatchPendingJobs(c)
    \/ ExecStep
    \/ CancelJobStep

SpecCancel == Init /\ [][NextCancel]_vars

(* The retryJob invocations in flight *)
RetryCount ==
    BagCardinality([m \in {x \in BagToSet(mgmt) : x.op = "retryJob"} |-> mgmt[m]])

(* retryJob calls, which may overlap each other, cancelJob calls and the     *)
(* execution of the job, for ids that are or are not in the collection       *)
RetryJobStep ==
    \/ RetryCount < MaxRetryCalls /\ RetryJobCall(FirstId)
    \/ \E m \in BagToSet(mgmt) : RetryJobCheck(m)
    \/ \E m \in BagToSet(mgmt) : RetryJobReturn(m)

(* One job, due at once, is scheduled, dispatched by processNextJobs         *)
(* invocations that do not overlap, retried by hand and cancelled, by one    *)
(* cancelJob call at a time                                                  *)
NextRetry ==
    \/ Startup
    \/ RegisterJobHandler(KnownName)
    \/ nextId = FirstId
          /\ ScheduleJob(KnownName, 0, [priority |-> NoPriority, maxRetries |-> 2,
                                        retryDelay |-> Undefined,
                                        timeout |-> Undefined])
    \/ \E m \in BagToSet(mgmt) : ScheduleJobReturn(m)
    \/ ticks < MaxRetryTicks /\ calls = EmptyBag /\ ProcessNextJobs
    \/ \E c \in BagToSet(calls) : DispatchPendingJobs(c)
    \/ ExecStep
    \/ RetryJobStep
    \/ CancelCount = 0 /\ CancelJobCall(FirstId)
    \/ \E m \in BagToSet(mgmt) : CancelJobCheck(m)
    \/ \E m \in BagToSet(mgmt) : CancelJobReturn(m)

SpecRetry == Init /\ [][NextRetry]_vars

(* One job, due at once, is scheduled and retried by hand, one retryJob     *)
(* call at a time, while ticks and direct processNextJobs calls overlap      *)
NextManualRetry ==
    \/ Startup
    \/ RegisterJobHandler(KnownName)
    \/ nextId = FirstId
          /\ ScheduleJob(KnownName, 0, [priority |-> NoPriority, maxRetries |-> 2,
                                        retryDelay |-> Undefined,
                                        timeout |-> Undefined])
    \/ \E m \in BagToSet(mgmt) : ScheduleJobReturn(m)
    \/ ticks < MaxTicksOneJob /\ BagCardinality(calls) < MaxCalls /\ ProcessNextJobs
    \/ \E c \in BagToSet(calls) : DispatchPendingJobs(c)
    \/ ExecStep
    \/ RetryCount < MaxRetryCalls /\ RetryJobCall(FirstId)
    \/ \E m \in BagToSet(mgmt) : RetryJobCheckNoted(m)
    \/ \E m \in BagToSet(mgmt) : RetryJobReturn(m)

SpecManualRetry == Init /\ [][NextManualRetry]_vars

(* The invocations in flight of the operations in ops *)
InFlight(ops) ==
    BagCardinality([m \in {x \in BagToSet(mgmt) : x.op \in ops} |-> mgmt[m]])

(* The application awaits each initialize() and shutdown() call before it    *)
(* makes the next one; every other operation may be called at any time       *)
LifecycleStep ==
    \/ InFlight({"initialize", "shutdown"}) = 0 /\ Initialize
    \/ \E m \in BagToSet(mgmt) : InitializeConnected(m)
    \/ \E m \in BagToSet(mgmt) : InitializeReturn(m)
    \/ InFlight({"initialize", "shutdown"}) = 0 /\ Shutdown
    \/ \E m \in BagToSet(mgmt) : ShutdownDisconnected(m)
    \/ \E m \in BagToSet(mgmt) : ShutdownReturn(m)

(* The options of the jobs in the runs with shutdown *)
LifecycleOptions ==
    [priority |-> NoPriority, maxRetries |-> 2, retryDelay |-> Undefined,
     timeout |-> Undefined]

(* scheduleJob and scheduleRecurringJob calls: they go on while no job has   *)
(* been created and, for the latter, no recurring definition, and are        *)
(* refused on an engine that is not initialized or for an expression that is *)
(* not valid                                                                 *)
ScheduleStep ==
    \/ /\ \/ ~initialized
          \/ (nextId = FirstId
               /\ InFlight({"scheduleJob", "scheduleRecurringJob"}) = 0)
       /\ ScheduleJob(KnownName, 0, LifecycleOptions)
    \/ \E m \in BagToSet(mgmt) : ScheduleJobReturn(m)
    \/ \E c \in {EveryMinute, InvalidCron} :
          /\ \/ ~initialized
             \/ c = InvalidCron
             \/ (nextId = FirstId
                  /\ InFlight({"scheduleJob", "scheduleRecurringJob"}) = 0
                  /\ recurringJobs = <<>>)
          /\ ScheduleRecurringJob(KnownName, c, LifecycleOptions)
    \/ \E m \in BagToSet(mgmt) : ScheduleRecurringJobCreate(m)
    \/ \E m \in BagToSet(mgmt) : ScheduleRecurringJobReturn(m)

(* getJob, cancelJob and retryJob calls, one at a time, for an id that is or *)
(* is not in the collection                                                  *)
ManagementStep ==
    \/ /\ InFlight({"getJob", "cancelJob", "retryJob"}) = 0
       /\ GetJob(FirstId) \/ CancelJobCall(FirstId) \/ RetryJobCall(FirstId)
    \/ \E m \in BagToSet(mgmt) : GetJobReturn(m)
    \/ \E m \in BagToSet(mgmt) : CancelJobCheck(m)
    \/ \E m \in BagToSet(mgmt) : CancelJobReturn(m)
    \/ \E m \in BagToSet(mgmt) : RetryJobCheck(m)
    \/ \E m \in BagToSet(mgmt) : RetryJobReturn(m)

(* The steps at which an operation issued on a closed connection rejects *)
RejectionStep ==
    \/ \E m \in BagToSet(mgmt) : ManagementRejects(m)
    \/ \E e \in BagToSet(execs) : StatusUpdateRejects(e)
    \/ \E e \in BagToSet(execs) : IncrementAttemptsRejects(e)
    \/ \E e \in BagToSet(execs) : ExecCatch(e)
    \/ \E e \in BagToSet(execs) : ExecCatchRejects(e)

(* The engine is initialized and shut down, again and again, while its       *)
(* operations are called and a job is executed                               *)
NextLifecycle ==
    \/ LifecycleStep
    \/ RegisterJobHandler(KnownName)
    \/ ScheduleStep
    \/ ManagementStep
    \/ /\ ~initialized \/ (ticks < MaxLifecycleTicks /\ calls = EmptyBag)
       /\ ProcessNextJobs
    \/ \E c \in BagToSet(calls) : DispatchPendingJobs(c)
    \/ ExecStep
    \/ RejectionStep

SpecLifecycle == Init /\ [][NextLifecycle]_vars

(* A minute passes *)
MinutePasses ==
    /\ now < MaxMinutes * Minute
    /\ now' = now + Minute
    /\ UNCHANGED <<initialized, driver, jobHandlers, schedulerOptions,
                   activeJobs, jobs, nextId, calls, execs, orphans, emitted,
                   mgmt, ret, manual, ticks>>

(* The ticks of the cron task, which may overlap: a tick starts while the    *)
(* checkRecurringJobs of at most one earlier tick is in progress             *)
RecurringTicks ==
    \/ /\ ticks + BagCardinality(checks) < MaxCronTicks
       /\ BagCardinality(checks) < 2
       /\ CronTick
    \/ \E c \in BagToSet(checks) : CheckRecurringJobsLoop(c)
    \/ \E c \in BagToSet(checks) : CronProcessNextJobs(c)
    \/ \E c \in BagToSet(checks) : CheckRecurringJobsUpdate(c)
    \/ \E c \in BagToSet(calls) : DispatchPendingJobs(c)
    \/ \E e \in BagToSet(execs) : ExecNoHandlerEnds(e)

(* The updates the application makes to a definition *)
RecurringUpdates == {[isActive |-> FALSE], [isActive |-> TRUE], [cronExpression |-> Hourly]}

(* One recurring definition, for every minute, is created, may be updated    *)
(* and deleted, and is checked by the ticks of the cron task as time passes; *)
(* no handler is registered for its jobs                                     *)
NextRecurring ==
    \/ Startup
    \/ /\ nextId = FirstId /\ recurringJobs = <<>>
       /\ InFlight({"scheduleRecurringJob"}) = 0
       /\ ScheduleRecurringJob(KnownName, EveryMinute, LifecycleOptions)
    \/ \E m \in BagToSet(mgmt) : ScheduleRecurringJobCreate(m)
    \/ \E m \in BagToSet(mgmt) : ScheduleRecurringJobReturn(m)
    \/ \E u \in RecurringUpdates : UpdateRecurringJob(1, u)
    \/ DeleteRecurringJob(1)
    \/ MinutePasses
    \/ RecurringTicks

SpecRecurring == Init /\ [][NextRecurring]_vars

(* A call of getNextRunTime(cronExpression) at the present time: from is new *)
(* Date().  What is kept of the call is the expression and the result.       *)
GetNextRunTime(cronExpression) ==
    /\ ret' = Returned(cronExpression, getNextRunTime(cronExpression, now))
    /\ UNCHANGED <<initialized, driver, jobHandlers, schedulerOptions,
                   activeJobs, jobs, nextId, now, calls, execs, orphans,
                   emitted, mgmt, manual, ticks>>

(* The instants getNextRunTime is called at: on each of the first days of    *)
(* 1970, around midnight and noon, at the start, in the middle and at the    *)
(* end of an hour, on and off the full minute                                *)
HourInputs == {0, 12, 23}
MinuteInputs == {0, 1, 30, 58, 59}
MillisecondInputs == {0, 1, 30000, 59999}
FromInputs ==
    { d * Day + h * Hour + m * Minute + ms :
        d \in 0..MaxDay, h \in HourInputs, m \in MinuteInputs, ms \in MillisecondInputs }

(* The expressions it is called on.  The first of February 1970, the result *)
(* for the monthly expression, is beyond the integers of the model checker.  *)
CronExpressions == {EveryMinute, Hourly, Daily, Weekly, OtherPattern}

(* The state after construction, at one of these instants *)
InitNextRun ==
    /\ schedulerOptions = SchedulerOptions([maxConcurrentJobs |-> 1])
    /\ initialized = FALSE
    /\ cronTask = FALSE
    /\ cronTasks = 0
    /\ isConnected = FALSE
    /\ recurringJobs = <<>>
    /\ recurringSaved = 0
    /\ checks = EmptyBag
    /\ jobHandlers = {}
    /\ activeJobs = EmptyBag
    /\ jobs = NoJobs
    /\ nextId = FirstId
    /\ now \in FromInputs
    /\ calls = EmptyBag
    /\ execs = EmptyBag
    /\ orphans = EmptyBag
    /\ emitted = NoEvents
    /\ invoked = NoInvocations
    /\ mgmt = EmptyBag
    /\ ret = NoReturn
    /\ retried = {}
    /\ resetAt = NeverReset
    /\ ticks = 0

(* The next-run calculator alone, applied to every expression at every instant *)
NextNextRun == \E c \in CronExpressions : GetNextRunTime(c)

SpecNextRun == InitNextRun /\ [][NextNextRun]_vars

(* The options callers give scheduleJob when the per-job policy matters:     *)
(* each of maxRetries, retryDelay and timeout is left out, 0, or positive    *)
PolicyOptions ==
    [priority : {NoPriority}, maxRetries : {Undefined, 0, 1, 4},
     retryDelay : {Undefined, 0, 1000}, timeout : {Undefined, 0, 500}]

(* Jobs are scheduled with every per-job policy *)
NextPolicy ==
    \/ Startup
    \/ \E t \in Times, o \in PolicyOptions :
          nextId <= MaxJobs /\ ScheduleJob(KnownName, t, o)
    \/ \E m \in BagToSet(mgmt) : ScheduleJobReturn(m)

SpecPolicy == Init /\ [][NextPolicy]_vars

(* initialize() and shutdown() calls that the application does not await:   *)
(* they overlap each other in every way, while the cron tasks tick           *)
OverlappingLifecycle ==
    \/ /\ InitializeCount < MaxInitializes
       /\ cronTasks + InitializeCount < MaxCronTasks
       /\ Initialize
    \/ \E m \in BagToSet(mgmt) : InitializeConnected(m)
    \/ \E m \in BagToSet(mgmt) : InitializeReturn(m)
    \/ InFlight({"shutdown"}) = 0 /\ Shutdown
    \/ \E m \in BagToSet(mgmt) : ShutdownDisconnected(m)
    \/ \E m \in BagToSet(mgmt) : ShutdownReturn(m)

NextDriver ==
    \/ OverlappingLifecycle
    \/ ticks + BagCardinality(checks) < MaxCronTicks /\ checks = EmptyBag /\ CronTick
    \/ \E c \in BagToSet(checks) : CheckRecurringJobsLoop(c)
    \/ \E c \in BagToSet(checks) : CronProcessNextJobs(c)

SpecDriver == Init /\ [][NextDriver]_vars

----------------------------------------------------------------------------
(* What is in progress, per job *)

(* The processJob invocations of job j that have started and not ended *)
ExecsOf(j) == {e \in BagToSet(execs) : e.job = j}
ExecCount(j) == BagCardinality([e \in ExecsOf(j) |-> execs[e]])

(* The handler invocations of job j that have not settled: those raced with  *)
(* the timer, and those that lost the race and run on                        *)
HandlersRunning(j) == {e \in ExecsOf(j) : e.pc = "handler"}
HandlerCount(j) ==
    BagCardinality([e \in HandlersRunning(j) |-> execs[e]])
        + BagCount(orphans, j)

(* The jobs whose handler is running inside a processJob invocation *)
Executing == {j \in JobIds : HandlersRunning(j) # {}}

----------------------------------------------------------------------------
(* Claims *)

(* C1: in every reachable state the number of jobs being executed at once is *)
(* at most maxConcurrentJobs.                                                *)
C1_ConcurrencyCap == Cardinality(Executing) <= maxConcurrentJobs

(* C2: at no time are two per-job executions (processJob invocations) of the *)
(* same job id in progress.                                                  *)
C2_OneExecutionPerJob == \A j \in JobIds : ExecCount(j) <= 1

(* C3: at no time are two invocations of a handler for the same job id in    *)
(* progress, an invocation that lost the timeout race and runs on included.  *)
C3_OneHandlerPerJob == \A j \in JobIds : HandlerCount(j) <= 1

(* The ids a processNextJobs invocation selected *)
SelectedIds(c) == {c.pendingJobs[i].id : i \in DOMAIN c.pendingJobs}

(* The processNextJobs invocations a step starts *)
NewCalls == {c \in BagToSet(calls') : BagCount(calls', c) > BagCount(calls, c)}

(* C4: when a failed execution (failure result, exception or timeout) of a   *)
(* job ends and the job's attempts count is then at most its maxRetries, the *)
(* job is Pending, to be selected by a later tick.                           *)
C4_RetryWithinBudget ==
    [][\A e \in BagToSet(execs) :
          ( /\ ExecFailedEnds(e)
            /\ e.job \in DOMAIN jobs
            /\ jobs[e.job].attempts <= jobs[e.job].maxRetries )
          => jobs'[e.job].status = PENDING]_vars

(* C5: when a failed execution of a job ends and the job's attempts count is *)
(* then above its maxRetries, the job's status is Failed.                    *)
C5_ExhaustedIsFailed ==
    [][\A e \in BagToSet(execs) :
          ( /\ ExecFailedEnds(e)
            /\ e.job \in DOMAIN jobs
            /\ jobs[e.job].attempts > jobs[e.job].maxRetries )
          => jobs'[e.job].status = FAILED]_vars

(* A job whose executions all failed and that is left Failed: nothing of it  *)
(* is in progress or selected, and it never completed                        *)
FailedForGood(j) ==
    /\ jobs[j].status = FAILED
    /\ jobs[j].errorMessage \in {MsgHandler, MsgTimeout}
    /\ emitted[JOB_COMPLETED][j] = 0
    /\ ExecCount(j) = 0
    /\ \A c \in BagToSet(calls) : j \notin SelectedIds(c)
    /\ j \notin retried

(* C6: a job whose handler fails on every execution has been executed        *)
(* exactly maxRetries + 1 times when it is left Failed.                      *)
C6_FailingJobAttempts ==
    \A j \in DOMAIN jobs : FailedForGood(j) => jobs[j].attempts = jobs[j].maxRetries + 1

(* C7: a job that retryJob has never reset has at most maxRetries + 1        *)
(* attempts.                                                                 *)
C7_AttemptsBound ==
    \A j \in DOMAIN jobs : j \notin retried => jobs[j].attempts <= jobs[j].maxRetries + 1

(* The order of the priorities: High before Normal before Low *)
PriorityRank(p) == CASE p = HIGH -> 3 [] p = NORMAL -> 2 [] p = LOW -> 1

(* C8: a processNextJobs invocation leaves no due Pending job unselected     *)
(* that has a higher priority than a job it selects, whatever the due times. *)
C8_PriorityOrder ==
    [][\A c \in NewCalls :
          \A j \in SelectedIds(c) :
             \A u \in PendingFilter(jobs, now) \ SelectedIds(c) :
                PriorityRank(jobs[u].priority) <= PriorityRank(jobs[j].priority)]_vars

(* The jobs a step moves to Running, and the processJob invocations it starts *)
MovedToRunning ==
    {j \in DOMAIN jobs \cap DOMAIN jobs' :
        jobs[j].status # RUNNING /\ jobs'[j].status = RUNNING}
NewExecs == {e \in BagToSet(execs') : BagCount(execs', e) > BagCount(execs, e)
                                      /\ e.pc \in {"markRunning", "noHandler",
                                                     "statusRejected"}}

(* A step selects only Pending jobs that are due, at most as many as there   *)
(* are free slots, and dispatches only jobs that were selected               *)
SelectsDueAndDispatchesSelected ==
    /\ \A c \in NewCalls :
          /\ \A j \in SelectedIds(c) :
                /\ j \in DOMAIN jobs
                /\ jobs[j].status = PENDING
                /\ jobs[j].scheduledAt <= now
          /\ Len(c.pendingJobs) <= maxConcurrentJobs - BagCardinality(activeJobs)
    /\ \A j \in MovedToRunning : \E c \in BagToSet(calls) : j \in SelectedIds(c)
    /\ \A e \in NewExecs : \E c \in BagToSet(calls) : e.job \in SelectedIds(c)

(* No job is selected, run or stamped as run before its scheduledAt *)
NeverBeforeScheduledAt ==
    /\ \A c \in BagToSet(calls) : \A j \in SelectedIds(c) \cap DOMAIN jobs :
          jobs[j].scheduledAt <= now
    /\ \A e \in BagToSet(execs) : e.job \in DOMAIN jobs => jobs[e.job].scheduledAt <= now
    /\ \A j \in DOMAIN jobs :
          jobs[j].executedAt # NoTime => jobs[j].scheduledAt <= jobs[j].executedAt

(* C9: a job is dispatched only if it was selected, and it is selected only  *)
(* when it is Pending with scheduledAt <= now; no job is executed before its *)
(* scheduledAt; an invocation of processNextJobs selects at most             *)
(* maxConcurrentJobs minus the active count jobs.                            *)
C9_DispatchOnlyDue ==
    [][SelectsDueAndDispatchesSelected]_vars /\ []NeverBeforeScheduledAt

(* C9, its case: with a cap of 2 and one invocation of processJob in the     *)
(* active set, an invocation of processNextJobs has selected one job, which  *)
(* is due, and has left the other Pending job, which is due as well,         *)
(* unselected                                                                *)
C9_Witness ==
    /\ maxConcurrentJobs = 2
    /\ BagCardinality(activeJobs) = 1
    /\ BagCardinality(calls) = 1
    /\ \E c \in BagToSet(calls) :
          /\ Len(c.pendingJobs) = 1
          /\ \A j \in SelectedIds(c) :
                j \in DOMAIN jobs /\ jobs[j].status = PENDING /\ jobs[j].scheduledAt <= now
          /\ \E u \in DOMAIN jobs \ SelectedIds(c) :
                jobs[u].status = PENDING /\ jobs[u].scheduledAt <= now

(* The job cancelJob invocation m looked up was stored with status Pending *)
PendingAtLookup(m) == m.job = Some(PENDING)

(* The steps at which cancelJob invocation m returns *)
CancelJobEnds(m) ==
    \/ CancelJobCheck(m) /\ ~PendingAtLookup(m)
    \/ CancelJobReturn(m)

(* C10 as stated: a cancelJob call returns true iff the job existed with     *)
(* status Pending at the time of the call.                                   *)
C10_TrueIffPendingAtCall ==
    [][\A m \in BagToSet(mgmt) :
          CancelJobEnds(m) => (ret'.value = "true" <=> PendingAtLookup(m))]_vars

(* cancelJob on a job that was not stored as Pending when looked up: false,  *)
(* no error, nothing changed, no event                                       *)
CancelRefused(m) ==
    /\ ret' = Returned("cancelJob", "false")
    /\ jobs' = jobs
    /\ emitted' = emitted

(* cancelJob on a job that was Pending when looked up: the job is deleted,   *)
(* whatever has become of it since, and the call goes on knowing whether the *)
(* delete found it                                                           *)
CancelDeletes(m) ==
    /\ DOMAIN jobs' = DOMAIN jobs \ {m.id}
    /\ \A j \in DOMAIN jobs' : jobs'[j] = jobs[j]
    /\ emitted' = emitted /\ ret' = ret
    /\ BagCount(mgmt', Management("cancelJob", "deleted", m.id, m.job,
                                  m.id \in DOMAIN jobs)) > 0

(* cancelJob after its delete: true and one job_cancelled when the delete    *)
(* found the job, false and no event when an overlapping call had deleted it *)
CancelAnswers(m) ==
    /\ PendingAtLookup(m)
    /\ m.id \notin DOMAIN jobs /\ jobs' = jobs
    /\ ret' = Returned("cancelJob", IF m.success THEN "true" ELSE "false")
    /\ emitted' = IF m.success
                  THEN [emitted EXCEPT ![JOB_CANCELLED][m.id] = @ + 1]
                  ELSE emitted

(* C10, amended: cancelJob returns true, with the job deleted and one        *)
(* job_cancelled published, iff the job was stored with status Pending when  *)
(* the call looked it up and was still stored when the call deleted it; in   *)
(* every other case it returns false without an error and publishes no       *)
(* job_cancelled, and when the job was Running, Completed, Failed or absent  *)
(* at the lookup it changes nothing.  At most one call per job returns true. *)
C10_CancelJob ==
    /\ [][\A m \in BagToSet(mgmt) :
             /\ (CancelJobCheck(m) /\ ~PendingAtLookup(m)) => CancelRefused(m)
             /\ (CancelJobCheck(m) /\ PendingAtLookup(m)) => CancelDeletes(m)
             /\ CancelJobReturn(m) => CancelAnswers(m)]_vars
    /\ [](\A j \in JobIds :
             /\ emitted[JOB_CANCELLED][j] <= 1
             /\ emitted[JOB_CANCELLED][j] = 1 => j \notin DOMAIN jobs)

(* C10, its case: of two overlapping cancelJob calls for a Pending job one   *)
(* has returned true, with the job deleted and the event published, and the  *)
(* other, whose delete found nothing, is about to return false               *)
C10_Witness ==
    /\ ret = Returned("cancelJob", "true")
    /\ \E m \in BagToSet(mgmt) :
          /\ m.op = "cancelJob" /\ m.pc = "deleted" /\ ~m.success
          /\ PendingAtLookup(m)
          /\ m.id \notin DOMAIN jobs
          /\ emitted[JOB_CANCELLED][m.id] = 1

(* C11: at the step at which cancelJob deletes a job record, the job's       *)
(* status is Pending and its id is not in the active set: a job that has     *)
(* been dispatched is never deleted.                                         *)
C11_CancelDeletesOnlyPending ==
    [][\A m \in BagToSet(mgmt) :
          (CancelJobCheck(m) /\ m.id \in DOMAIN jobs /\ m.id \notin DOMAIN jobs')
          => (jobs[m.id].status = PENDING /\ ~BagIn(m.id, activeJobs))]_vars

(* The job retryJob invocation m looked up was stored with status Failed *)
FailedAtLookup(m) == m.job = Some(FAILED)

(* retryJob on a job that was stored with another status when looked up: an  *)
(* error, and nothing changed or published                                   *)
RetryRefused(m) ==
    /\ ret' = Returned("retryJob", "Cannot retry job with status")
    /\ jobs' = jobs
    /\ emitted' = emitted

(* retryJob resets the job it read as Failed: the status becomes Pending,    *)
(* every other field stays                                                   *)
RetryResets(m) ==
    /\ m.id \in DOMAIN jobs
    /\ jobs' = [jobs EXCEPT ![m.id].status = PENDING]
    /\ jobs'[m.id].attempts = jobs[m.id].attempts
    /\ jobs'[m.id].scheduledAt = jobs[m.id].scheduledAt

(* retryJob after its update publishes job_retried and returns the job *)
RetryPublishes(m) ==
    /\ emitted' = [emitted EXCEPT ![JOB_RETRIED][m.id] = @ + 1]
    /\ ret' = Returned("retryJob", "job")
    /\ jobs' = jobs

(* C12 as stated: retryJob on a job whose status is not Failed fails with an *)
(* error and leaves the job unchanged; on a Failed job it sets the status to *)
(* Pending, leaves attempts and scheduledAt unchanged, and publishes         *)
(* job_retried.                                                              *)
C12_RetryResetsAndPublishes ==
    [][\A m \in BagToSet(mgmt) :
          /\ (RetryJobCheck(m) /\ m.job # Null /\ ~FailedAtLookup(m)) => RetryRefused(m)
          /\ (RetryJobCheck(m) /\ FailedAtLookup(m)) => RetryResets(m)
          /\ RetryJobReturn(m) => RetryPublishes(m)]_vars

(* C12, amended: retryJob on a job whose status is not Failed when the call  *)
(* looks it up fails with an error and leaves the job unchanged; on a job    *)
(* that is Failed at the lookup it sets the status to Pending, leaves        *)
(* attempts and scheduledAt unchanged and publishes job_retried, provided    *)
(* the job is still stored when the update runs; when the job has been       *)
(* deleted in between it changes nothing, publishes nothing and returns      *)
(* null.                                                                     *)
C12_RetryJob ==
    [][\A m \in BagToSet(mgmt) :
          /\ (RetryJobCheck(m) /\ m.job # Null /\ ~FailedAtLookup(m)) => RetryRefused(m)
          /\ (RetryJobCheck(m) /\ FailedAtLookup(m) /\ m.id \in DOMAIN jobs)
                => (RetryResets(m) /\ emitted' = emitted)
          /\ (RetryJobCheck(m) /\ FailedAtLookup(m) /\ m.id \notin DOMAIN jobs)
                => (jobs' = jobs /\ emitted' = emitted)
          /\ (RetryJobReturn(m) /\ m.success) => RetryPublishes(m)
          /\ (RetryJobReturn(m) /\ ~m.success)
                => ( /\ ret' = Returned("retryJob", "null")
                     /\ jobs' = jobs /\ emitted' = emitted )]_vars

(* C12, its case: a job that failed for good, with two attempts, has been    *)
(* reset by retryJob: it is Pending, its attempts and scheduledAt are what   *)
(* they were, and job_retried has been published once                        *)
C12_Witness ==
    /\ ret = Returned("retryJob", "job")
    /\ 1 \in DOMAIN jobs
    /\ jobs[1].status = PENDING /\ jobs[1].attempts = 2 /\ jobs[1].scheduledAt = 0
    /\ emitted[JOB_RETRIED][1] = 1
    /\ emitted[JOB_FAILED][1] = 2

(* A step fails with the not-initialized error of operation op: it changes   *)
(* no job, no recurring definition, nothing of the active set or of what is  *)
(* in progress, and publishes no event                                       *)
FailsNotInitialized(op) ==
    /\ ret' = Returned(op, NotInitialized)
    /\ UNCHANGED <<jobs, nextId, recurringJobs, recurringSaved, activeJobs,
                   calls, execs, orphans, emitted, mgmt, manual, initialized,
                   cronTask, cronTasks, isConnected>>

(* C13: scheduleJob, scheduleRecurringJob, getJob, cancelJob, retryJob and   *)
(* processNextJobs, called while the engine is not initialized (before       *)
(* initialize() completes or after shutdown()), fail with the                *)
(* not-initialized error, change no job, schedule or active-set state and    *)
(* publish no event.                                                         *)
C13_NotInitializedCalls ==
    [][~initialized =>
          /\ ScheduleJob(KnownName, 0, LifecycleOptions) => FailsNotInitialized("scheduleJob")
          /\ \A c \in {EveryMinute, InvalidCron} :
                ScheduleRecurringJob(KnownName, c, LifecycleOptions)
                => FailsNotInitialized("scheduleRecurringJob")
          /\ GetJob(FirstId) => FailsNotInitialized("getJob")
          /\ CancelJobCall(FirstId) => FailsNotInitialized("cancelJob")
          /\ RetryJobCall(FirstId) => FailsNotInitialized("retryJob")
          /\ ProcessNextJobs => FailsNotInitialized("processNextJobs")]_vars

(* C13, its case: after a shutdown that left a job in the collection,        *)
(* Pending and due, processNextJobs has been called and has failed with the  *)
(* not-initialized error, with nothing selected or dispatched                *)
C13_Witness ==
    /\ ~initialized /\ ~isConnected /\ cronTasks = 0
    /\ InFlight({"initialize", "shutdown"}) = 0
    /\ ret = Returned("processNextJobs", NotInitialized)
    /\ 1 \in DOMAIN jobs /\ jobs[1].status = PENDING /\ jobs[1].scheduledAt <= now
    /\ calls = EmptyBag /\ execs = EmptyBag /\ activeJobs = EmptyBag

(* Everything but what the last call returned *)
allButRet == <<initialized, cronTask, cronTasks, isConnected, recurringJobs,
               recurringSaved, checks, invoked, jobHandlers, schedulerOptions,
               activeJobs, jobs, nextId, now, calls, execs, orphans, emitted,
               mgmt, manual, ticks>>

(* An engine at rest: no initialize() or shutdown() call is in progress *)
AtRest == InFlight({"initialize", "shutdown"}) = 0

(* C14: initialize() on an initialized engine and shutdown() on an engine    *)
(* that is not initialized return without any effect, so that an initialized *)
(* engine at rest has one store connection and one tick driver however many  *)
(* initialize() calls were made, and an engine that is shut down has none.   *)
C14_LifecycleIdempotent ==
    /\ [][ /\ (initialized /\ Initialize)
                => (ret' = Returned("initialize", Void) /\ UNCHANGED allButRet)
           /\ (~initialized /\ Shutdown)
                => (ret' = Returned("shutdown", Void) /\ UNCHANGED allButRet) ]_vars
    /\ [](AtRest => /\ initialized => (isConnected /\ cronTask /\ cronTasks = 1)
                    /\ ~initialized => (~isConnected /\ ~cronTask /\ cronTasks = 0))

(* C14, its case: initialize() has been called on an initialized engine and  *)
(* has returned at once; the store is connected and one cron task runs       *)
C14_Witness ==
    /\ ret = Returned("initialize", Void)
    /\ initialized /\ AtRest
    /\ isConnected /\ cronTask /\ cronTasks = 1

(* C15: whenever the per-job execution routine of a job ends, by any path    *)
(* (an exception thrown by a storage operation or an event subscriber        *)
(* included), the job's id is not in the active set: the active set holds an *)
(* entry of a job only while the processJob invocation that added it is in   *)
(* progress, so never more entries of a job than invocations in progress.    *)
C15_ActiveOnlyWhileExecuting ==
    \A j \in BagToSet(activeJobs) : BagCount(activeJobs, j) <= ExecCount(j)

(* The step ends the processJob invocation e: its record goes and none of   *)
(* its job comes in its place                                                *)
ExecutionEnds(e) ==
    /\ BagCount(execs', e) < BagCount(execs, e)
    /\ BagCardinality(execs') < BagCardinality(execs)

(* C16: when the handler of a due Pending job returns a success result       *)
(* before the timeout, the job's status becomes Completed with completedAt   *)
(* set, and the step that follows in that execution ends it with the status  *)
(* still Completed, one job_completed event published and no job_failed      *)
(* event; for a job executed for the first time these are all the outcome    *)
(* events published for it.                                                  *)
C16_SuccessCompletes ==
    [][\A e \in BagToSet(execs) :
          /\ HandlerSucceeds(e) =>
                /\ jobs'[e.job].status = COMPLETED
                /\ jobs'[e.job].completedAt = now
          /\ e.pc = "completed" /\ BagCount(execs', e) < BagCount(execs, e) =>
                /\ ExecutionEnds(e)
                /\ jobs'[e.job].status = COMPLETED
                /\ jobs'[e.job].completedAt # NoTime
                /\ emitted'[JOB_COMPLETED][e.job] = emitted[JOB_COMPLETED][e.job] + 1
                /\ emitted'[JOB_FAILED][e.job] = emitted[JOB_FAILED][e.job]
                /\ jobs[e.job].attempts = 1 =>
                      /\ emitted'[JOB_COMPLETED][e.job] = 1
                      /\ emitted'[JOB_FAILED][e.job] = 0]_vars

(* C17: Completed is terminal: once a job's persisted status is Completed no *)
(* step changes it, whatever the event subscribers do.                       *)
C17_CompletedIsTerminal ==
    [][\A j \in DOMAIN jobs :
          jobs[j].status = COMPLETED
          => (j \in DOMAIN jobs' /\ jobs'[j].status = COMPLETED)]_vars

(* C18: when the timer of the race fires before the handler has resolved,    *)
(* the execution ends as a failure with the timed-out message; a handler     *)
(* that is raced is given up in the end, and every job that enters Running   *)
(* leaves Running, even if its handler never returns.  The claim bounds the  *)
(* stay in Running by the job's timeout; what is stated here is the weaker   *)
(* property that the stay ends at all.                                       *)
C18_TimeoutEndsExecution ==
    /\ [][\A e \in BagToSet(execs) :
             HandlerTimesOut(e) =>
                /\ jobs'[e.job].status = FAILED
                /\ jobs'[e.job].errorMessage = MsgTimeout
                /\ \E f \in BagToSet(execs') : f.job = e.job /\ f.pc = "failed"]_vars
    /\ \A j \in JobIds :
          /\ (HandlersRunning(j) # {}) ~> (HandlersRunning(j) = {})
          /\ (j \in DOMAIN jobs /\ jobs[j].status = RUNNING)
                ~> (j \in DOMAIN jobs /\ jobs[j].status # RUNNING)

(* The jobs processNextJobs invocation c hands to processJob while their     *)
(* name has no registered handler                                            *)
WithoutHandler(c) ==
    {job \in Range(c.pendingJobs) : ProcessJobNoHandler(job) /\ job.id \in DOMAIN jobs}

(* C19: dispatching a due job whose name has no registered handler leaves    *)
(* the job Failed with a descriptive error message, counts the attempt and   *)
(* applies the automatic-retry rule to it: with attempts still below         *)
(* maxRetries the job goes back to Pending.                                  *)
C19_MissingHandlerCounted ==
    [][\A c \in BagToSet(calls) :
          DispatchPendingJobs(c) =>
             \A job \in WithoutHandler(c) :
                /\ jobs'[job.id].errorMessage = MsgNoHandler
                /\ jobs'[job.id].attempts = jobs[job.id].attempts + 1
                /\ jobs'[job.id].status =
                      IF jobs'[job.id].attempts < jobs'[job.id].maxRetries
                      THEN PENDING ELSE FAILED]_vars

(* C20: every dispatch of a due job publishes exactly one outcome event when *)
(* it ends: job_completed when the job ended Completed, job_failed when it   *)
(* ended in a failure of any cause, a missing handler included.              *)
C20_OneOutcomeEvent ==
    [][ /\ \A c \in BagToSet(calls) :
              DispatchPendingJobs(c) =>
                 \A job \in WithoutHandler(c) :
                    /\ emitted'[JOB_FAILED][job.id] = emitted[JOB_FAILED][job.id] + 1
                    /\ emitted'[JOB_COMPLETED][job.id] = emitted[JOB_COMPLETED][job.id]
        /\ \A e \in BagToSet(execs) :
              /\ ExecCompleted(e) =>
                    /\ emitted'[JOB_COMPLETED][e.job] = emitted[JOB_COMPLETED][e.job] + 1
                    /\ emitted'[JOB_FAILED][e.job] = emitted[JOB_FAILED][e.job]
              /\ ExecFailedEnds(e) =>
                    /\ emitted'[JOB_FAILED][e.job] = emitted[JOB_FAILED][e.job] + 1
                    /\ emitted'[JOB_COMPLETED][e.job] = emitted[JOB_COMPLETED][e.job] ]_vars

(* C21: an automatic retry that follows a failure at time t puts the job     *)
(* back to Pending with scheduledAt = t + retryDelay, so that no tick        *)
(* selects it for dispatch before t + retryDelay.                            *)
C21_RetryAfterDelay ==
    [][\A e \in BagToSet(execs) :
          ExecRetry(e) /\ e.job \in DOMAIN jobs =>
             /\ jobs'[e.job].status = PENDING
             /\ jobs'[e.job].scheduledAt = now + jobs[e.job].retryDelay]_vars

(* C25: for a cron expression that matches none of the patterns it knows,   *)
(* the next-run calculator returns from + 5 minutes, so the first occurrence *)
(* scheduleRecurringJob creates at time now is scheduled at now + 5 minutes. *)
C25_FallbackFiveMinutes ==
    ret.op = OtherPattern => ret.value = now + 5 * Minute

(* C26: for every instant T, nextRun("0 0 * * *", T) is the first midnight   *)
(* strictly after T rounded forward (T plus one minute, seconds cleared);    *)
(* the result is fixed by the expression and T alone.                        *)
C26_DailyNextMidnight ==
    ret.op = Daily =>
       LET rounded == (now + Minute) - ((now + Minute) % Minute)
       IN  /\ ret.value % Day = 0
           /\ ret.value > rounded
           /\ ret.value - Day <= rounded

(* C26, its case: half a minute before midnight of the first day, the daily  *)
(* expression gives the midnight that ends the second day                    *)
C26_Witness ==
    /\ ret.op = Daily
    /\ now = 23 * Hour + 59 * Minute + 30000
    /\ ret.value = 2 * Day

(* C27: for every instant T, the next-run calculator applied to the weekly   *)
(* expression "0 0 * * 0" returns a Sunday at 00:00 strictly after T.        *)
C27_WeeklyNextSunday ==
    ret.op = Weekly =>
       /\ ret.value % Day = 0
       /\ (4 + (ret.value \div Day)) % 7 = 0
       /\ ret.value > now

(* C28: for every instant T, the next-run calculator applied to the hourly   *)
(* expression "0 * * * *" returns the first top of an hour strictly after T; *)
(* the result is never at or before T.                                       *)
C28_HourlyNextHour ==
    ret.op = Hourly =>
       /\ ret.value % Hour = 0
       /\ ret.value > now
       /\ ret.value - Hour <= now

(* C24, as stated: scheduleRecurringJob with a cron expression that is not   *)
(* valid fails with an error and creates no schedule record, no job and no   *)
(* event; with a valid expression it creates one schedule record, then one   *)
(* Pending job for the first occurrence, and publishes job_scheduled for     *)
(* that job.                                                                 *)
C24_ScheduleRecurringJob ==
    [][ /\ initialized /\ ScheduleRecurringJob(KnownName, InvalidCron, LifecycleOptions)
           => /\ ret' = Returned("scheduleRecurringJob", InvalidCronExpression)
              /\ UNCHANGED <<recurringJobs, jobs, nextId, emitted, mgmt>>
        /\ initialized /\ ScheduleRecurringJob(KnownName, EveryMinute, LifecycleOptions)
           => /\ Len(recurringJobs') = Len(recurringJobs) + 1
              /\ SubSeq(recurringJobs', 1, Len(recurringJobs)) = recurringJobs
              /\ recurringJobs'[Len(recurringJobs')].cronExpression = EveryMinute
              /\ recurringJobs'[Len(recurringJobs')].isActive
              /\ UNCHANGED <<jobs, nextId, emitted>>
        /\ \A m \in BagToSet(mgmt) :
              /\ ScheduleRecurringJobCreate(m)
                 => /\ nextId \notin DOMAIN jobs
                    /\ DOMAIN jobs' = DOMAIN jobs \cup {nextId}
                    /\ \A j \in DOMAIN jobs : jobs'[j] = jobs[j]
                    /\ jobs'[nextId].status = PENDING
                    /\ jobs'[nextId].scheduledAt > now
                    /\ jobs'[nextId].scheduledAt - Minute <= now
                    /\ UNCHANGED <<recurringJobs, emitted>>
              /\ ScheduleRecurringJobReturn(m)
                 => /\ ret' = Returned("scheduleRecurringJob", "job")
                    /\ emitted' = Emit(emitted, JOB_SCHEDULED, m.id)
                    /\ UNCHANGED <<recurringJobs, jobs, nextId>> ]_vars

(* A step of a scheduleRecurringJob call finds the store connection closed,  *)
(* or the call fails with the store's error: nothing is created and no event *)
(* is published                                                              *)
CreatesNothing == UNCHANGED <<recurringJobs, jobs, nextId, emitted>>

(* C24, amended: the same for an expression that is not valid; with a valid  *)
(* expression each step of the call that finds the store connection open     *)
(* does as stated, and a step that finds it closed, which happens when the   *)
(* call overlaps shutdown(), creates nothing: the call then fails with the   *)
(* store's error and publishes no event.                                     *)
C24_ScheduleRecurringJobConnected ==
    [][ /\ initialized /\ ScheduleRecurringJob(KnownName, InvalidCron, LifecycleOptions)
           => /\ ret' = Returned("scheduleRecurringJob", InvalidCronExpression)
              /\ UNCHANGED <<recurringJobs, jobs, nextId, emitted, mgmt>>
        /\ initialized /\ ScheduleRecurringJob(KnownName, EveryMinute, LifecycleOptions)
           => IF isConnected
              THEN /\ Len(recurringJobs') = Len(recurringJobs) + 1
                   /\ SubSeq(recurringJobs', 1, Len(recurringJobs)) = recurringJobs
                   /\ recurringJobs'[Len(recurringJobs')].cronExpression = EveryMinute
                   /\ recurringJobs'[Len(recurringJobs')].isActive
                   /\ UNCHANGED <<jobs, nextId, emitted>>
              ELSE CreatesNothing
        /\ \A m \in BagToSet(mgmt) :
              /\ ScheduleRecurringJobCreate(m)
                 => IF isConnected
                    THEN /\ nextId \notin DOMAIN jobs
                         /\ DOMAIN jobs' = DOMAIN jobs \cup {nextId}
                         /\ \A j \in DOMAIN jobs : jobs'[j] = jobs[j]
                         /\ jobs'[nextId].status = PENDING
                         /\ jobs'[nextId].scheduledAt > now
                         /\ jobs'[nextId].scheduledAt - Minute <= now
                         /\ UNCHANGED <<recurringJobs, emitted>>
                    ELSE CreatesNothing
              /\ ScheduleRecurringJobReturn(m)
                 => /\ ret' = Returned("scheduleRecurringJob", "job")
                    /\ emitted' = Emit(emitted, JOB_SCHEDULED, m.id)
                    /\ UNCHANGED <<recurringJobs, jobs, nextId>>
              /\ ManagementRejects(m) /\ m.op = "scheduleRecurringJob"
                 => /\ ret' = Returned("scheduleRecurringJob", MsgStore)
                    /\ CreatesNothing ]_vars

(* C24, its case: a call with a valid expression has returned, leaving one   *)
(* schedule record, one job and one job_scheduled event, and a later call    *)
(* with an expression that is not valid has failed and added nothing         *)
C24_Witness ==
    /\ initialized
    /\ ret = Returned("scheduleRecurringJob", InvalidCronExpression)
    /\ Len(recurringJobs) = 1 /\ recurringJobs[1].cronExpression = EveryMinute
    /\ DOMAIN jobs = {1} /\ jobs[1].status = PENDING /\ jobs[1].scheduledAt = Minute
    /\ emitted[JOB_SCHEDULED][1] = 1
    /\ InFlight({"scheduleRecurringJob"}) = 0

(* C29: immediately after initialize() completes the active-job set is      *)
(* empty, also when that initialize() follows a shutdown() that happened     *)
(* while jobs were in flight.                                                *)
C29_ActiveEmptyAfterInitialize ==
    [][\A m \in BagToSet(mgmt) : InitializeReturn(m) => activeJobs' = EmptyBag]_vars

(* The jobs whose persisted status goes from Pending to Running in a step *)
PendingToRunning ==
    {j \in DOMAIN jobs \cap DOMAIN jobs' :
        jobs[j].status = PENDING /\ jobs'[j].status = RUNNING}

(* C30: shutdown() neither waits for nor aborts the jobs in flight, and once *)
(* shutdown() has completed no job is moved from Pending to Running until    *)
(* initialize() is called again: what a processNextJobs invocation that was  *)
(* in flight at the shutdown still dispatches finds the connection closed.   *)
C30_NoDispatchAfterShutdown ==
    [][ /\ \A m \in BagToSet(mgmt) :
              ShutdownReturn(m) => UNCHANGED <<activeJobs, execs, jobs>>
        /\ ~initialized /\ InFlight({"initialize", "shutdown"}) = 0
           => PendingToRunning = {} ]_vars

(* C30, its case: shutdown() has completed while a processNextJobs           *)
(* invocation was in flight; the invocation has gone on to call processJob,  *)
(* whose updateJobStatus(RUNNING) was issued on the closed connection, and   *)
(* the job is still Pending                                                  *)
C30_Witness ==
    /\ ~initialized /\ ~isConnected
    /\ InFlight({"initialize", "shutdown"}) = 0
    /\ ret = Returned("shutdown", LogShutdown)
    /\ \E e \in BagToSet(execs) :
          /\ e.pc = "statusRejected"
          /\ e.job \in DOMAIN jobs /\ jobs[e.job].status = PENDING

(* The place in its list of the definition for which a step of the          *)
(* checkRecurringJobs invocation c creates a job, and that step              *)
CreatesAt(c) == NextToCreate(c.activeRecurringJobs, c.i + 1, now)
CreatesJob(c) == CheckRecurringJobsLoop(c) /\ CreatesAt(c) <= Len(c.activeRecurringJobs)

(* What a tick creates for a definition of its list: one job, for the one    *)
(* occurrence that follows lastExecutedAt, however many were missed, and for *)
(* no definition a second time                                               *)
OneJobPerDefinition(c) ==
    LET list == c.activeRecurringJobs
        k == CreatesAt(c)
    IN  /\ nextId \notin DOMAIN jobs
        /\ DOMAIN jobs' = DOMAIN jobs \cup {nextId}
        /\ \A j \in DOMAIN jobs : jobs'[j] = jobs[j]
        /\ jobs'[nextId].scheduledAt = NextRunTimeOf(list[k].doc, now)
        /\ k > c.i
        /\ \A x \in 1..Len(list) : x # k => list[x].id # list[k].id
        /\ \E d \in BagToSet(checks') :
              /\ d.pc = "created" /\ d.i = k /\ d.activeRecurringJobs = list
              /\ BagCount(checks', d) > BagCount(checks, d)

(* C22, as stated: a single tick creates at most one job for any one         *)
(* recurring schedule, and none for a schedule whose isActive flag is false; *)
(* missed occurrences are not backfilled.                                    *)
C22_OneJobPerActiveSchedule ==
    [][\A c \in BagToSet(checks) :
          CreatesJob(c) =>
             /\ OneJobPerDefinition(c)
             /\ c.activeRecurringJobs[CreatesAt(c)].id \in DOMAIN recurringJobs
                   => recurringJobs[c.activeRecurringJobs[CreatesAt(c)].id].isActive]_vars

(* C22, amended: a single tick creates at most one job for any one recurring *)
(* schedule, and none for a schedule whose isActive flag is false when the   *)
(* tick reads the schedules; missed occurrences are not backfilled.          *)
C22_OneJobPerScheduleRead ==
    [][ /\ CronTick =>
              \A d \in BagToSet(checks') :
                 BagCount(checks', d) > BagCount(checks, d) =>
                    /\ \A x \in 1..Len(d.activeRecurringJobs) :
                          /\ d.activeRecurringJobs[x].doc
                                = recurringJobs[d.activeRecurringJobs[x].id]
                          /\ recurringJobs[d.activeRecurringJobs[x].id].isActive
                    /\ \A i \in DOMAIN recurringJobs :
                          ~recurringJobs[i].isActive =>
                             \A x \in 1..Len(d.activeRecurringJobs) :
                                d.activeRecurringJobs[x].id # i
        /\ \A c \in BagToSet(checks) :
              CreatesJob(c) =>
                 /\ OneJobPerDefinition(c)
                 /\ c.activeRecurringJobs[CreatesAt(c)].doc.isActive ]_vars

(* C22, its case: a tick that found the schedule two minutes after its       *)
(* lastExecutedAt has created one job, for the first of the two occurrences  *)
(* missed, and a later tick has found the schedule deactivated               *)
C22_Witness ==
    /\ Len(recurringJobs) = 1 /\ ~recurringJobs[1].isActive
    /\ recurringJobs[1].lastExecutedAt = 2 * Minute
    /\ now = 2 * Minute
    /\ nextId = 4
    /\ jobs[2].scheduledAt = Minute /\ jobs[3].scheduledAt = Minute
    /\ \E c \in BagToSet(checks) : c.pc = "list" /\ c.activeRecurringJobs = <<>>

(* The definition, as stored, for which a step of the checkRecurringJobs     *)
(* invocation c creates a job or updates lastExecutedAt, whether it is still *)
(* in the collection, and whether the invocation read it with a              *)
(* lastExecutedAt (the fired-before branch)                                  *)
StoredAt(c, k) == recurringJobs[c.activeRecurringJobs[k].id]
Stored(c, k) == c.activeRecurringJobs[k].id \in DOMAIN recurringJobs
FiredBefore(c, k) == c.activeRecurringJobs[k].doc.lastExecutedAt # NoTime

(* C23: in a tick, for an active schedule whose lastExecutedAt is set, a job *)
(* is spawned iff nextRun(cronExpression, lastExecutedAt) <= now; the job's  *)
(* scheduledAt equals that instant and lastExecutedAt becomes now (the now   *)
(* the tick compared with); otherwise no job is created and lastExecutedAt   *)
(* is unchanged, so lastExecutedAt never decreases.                          *)
C23_SpawnWhenDue ==
    [][ /\ \A c \in BagToSet(checks) :
              /\ CreatesJob(c)
              /\ FiredBefore(c, CreatesAt(c))
              /\ Stored(c, CreatesAt(c))
              => LET r == StoredAt(c, CreatesAt(c))
                     nextRunTime == getNextRunTime(r.cronExpression, r.lastExecutedAt)
                 IN  /\ nextRunTime <= now
                     /\ jobs'[nextId].scheduledAt = nextRunTime
        /\ \A c \in BagToSet(checks) :
              /\ CheckRecurringJobsUpdate(c)
              /\ FiredBefore(c, c.i)
              /\ Stored(c, c.i)
              => recurringJobs'[c.activeRecurringJobs[c.i].id].lastExecutedAt = c.at
        /\ \A i \in DOMAIN recurringJobs :
              /\ i \in DOMAIN recurringJobs'
              /\ recurringJobs[i].lastExecutedAt # NoTime
              => recurringJobs'[i].lastExecutedAt >= recurringJobs[i].lastExecutedAt ]_vars

(* C31: a job's executedAt is set once, at its first run start, and never    *)
(* changes afterwards, also when the job is retried and run again;           *)
(* completedAt is set only when the job becomes Completed and never changes  *)
(* afterwards.                                                               *)
C31_StampsSetOnce ==
    [][\A j \in DOMAIN jobs \cap DOMAIN jobs' :
          /\ jobs[j].executedAt # NoTime => jobs'[j].executedAt = jobs[j].executedAt
          /\ jobs[j].completedAt # NoTime => jobs'[j].completedAt = jobs[j].completedAt
          /\ jobs'[j].completedAt # jobs[j].completedAt =>
                jobs[j].status # COMPLETED /\ jobs'[j].status = COMPLETED]_vars

(* The processJob invocations of job j that have incremented attempts and    *)
(* have not yet gone on to JOB_STARTED and the handler                       *)
AboutToInvoke(j) == {e \in ExecsOf(j) : e.pc = "incremented"}

(* C32: a job's attempts starts at 0 and is incremented once before each     *)
(* handler invocation, so attempts equals the number of handler invocations  *)
(* started for that job; stated here for the states in which no execution of *)
(* the job is between the increment and the invocation it precedes.          *)
C32_AttemptsCountInvocations ==
    \A j \in DOMAIN jobs :
       AboutToInvoke(j) = {} => jobs[j].attempts = invoked[j]

(* The finally block of the processJob invocation e runs: the job's id is    *)
(* removed from the active set at the end of the execution routine           *)
RemovedFromActive(e) == ExecCompleted(e) \/ ExecFailedEnds(e)

(* C33: a job is Running only while it is being executed: whenever a job's   *)
(* id has been removed from the active set at the end of its execution       *)
(* routine, its persisted status is Completed, Failed or Pending, never      *)
(* Running.                                                                  *)
C33_NotRunningWhenRemoved ==
    [][\A e \in BagToSet(execs) :
          RemovedFromActive(e) /\ e.job \in DOMAIN jobs' =>
             jobs'[e.job].status \in {COMPLETED, FAILED, PENDING}]_vars

(* The status changes of the job state machine: dispatch, success, failure,  *)
(* retry (automatic or manual), and failure for want of a handler            *)
StatusChanges ==
    {<<PENDING, RUNNING>>, <<RUNNING, COMPLETED>>, <<RUNNING, FAILED>>,
     <<FAILED, PENDING>>, <<PENDING, FAILED>>}

(* C34: every change of a job's persisted status is one of Pending to        *)
(* Running, Running to Completed, Running to Failed, Failed to Pending, or   *)
(* Pending to Failed when no handler is registered; no other status change   *)
(* ever occurs.                                                              *)
C34_StatusChanges ==
    [][\A j \in DOMAIN jobs \cap DOMAIN jobs' :
          jobs'[j].status # jobs[j].status =>
             /\ <<jobs[j].status, jobs'[j].status>> \in StatusChanges
             /\ <<jobs[j].status, jobs'[j].status>> = <<PENDING, FAILED>> =>
                   /\ jobs[j].name \notin jobHandlers
                   /\ jobs'[j].errorMessage = MsgNoHandler]_vars

(* A tick of the cron task that does not overlap the one before, and the     *)
(* dispatch that follows its getPendingJobs.  No run has more than           *)
(* MaxProgressTicks ticks that select a job: each job is dispatched at most  *)
(* maxRetries times.                                                         *)
ProgressTick == ticks < MaxProgressTicks /\ calls = EmptyBag /\ ProcessNextJobs
Dispatch == \E c \in BagToSet(calls) : DispatchPendingJobs(c)

(* Two jobs that wait for the one slot of the engine, with event subscribers *)
(* and store operations that may throw                                       *)
NextProgress ==
    \/ Startup
    \/ RegisterJobHandler(KnownName)
    \/ \E t \in Times, o \in JobOptions :
          nextId <= MaxJobs /\ ScheduleJob(KnownName, t, o)
    \/ \E m \in BagToSet(mgmt) : ScheduleJobReturn(m)
    \/ AdvanceTime
    \/ ProgressTick
    \/ Dispatch
    \/ ExecStep
    \/ FaultStep

(* The runs in which ticks keep occurring and the event loop goes on: every  *)
(* handler invocation returns or is cut off by the timer                     *)
SpecProgress ==
    /\ Init /\ [][NextProgress]_vars
    /\ WF_vars(ProgressTick) /\ WF_vars(Dispatch) /\ WF_vars(Continuation)

(* Job j is Pending and its scheduledAt has passed; it has been dispatched;  *)
(* it is Completed or Failed                                                 *)
DuePending(j) ==
    j \in DOMAIN jobs /\ jobs[j].status = PENDING /\ jobs[j].scheduledAt <= now
Dispatched(j) == j \in DOMAIN jobs /\ jobs[j].status # PENDING
Settled(j) == j \in DOMAIN jobs /\ jobs[j].status \in {COMPLETED, FAILED}

(* C35: with ticks that keep occurring, a registered handler, handler        *)
(* invocations that return or are cut off by the timeout, and no manual      *)
(* retry, every Pending job whose scheduledAt has passed is eventually       *)
(* dispatched and eventually reaches Completed or Failed and stays there.    *)
C35_DueJobSettles ==
    \A j \in JobIds :
       /\ DuePending(j) ~> Dispatched(j)
       /\ DuePending(j) ~> [] Settled(j)

(* What a job stores for an option given as v, when the engine's configured  *)
(* default is d: v itself, 0 included, and d when the option is left out     *)
GivenOrConfigured(v, d) == IF v = Undefined THEN d ELSE v

(* C36: a job created by scheduleJob stores exactly the per-job maxRetries,  *)
(* retryDelay and timeout given in its options (including the value 0), and  *)
(* for an option that is not given stores the engine's configured default    *)
(* (defaultRetryAttempts for maxRetries, defaultRetryDelay for retryDelay).  *)
C36_StoresPolicy ==
    [][\A t \in Times, o \in PolicyOptions :
          ScheduleJob(KnownName, t, o) /\ nextId' # nextId =>
             /\ jobs'[nextId].maxRetries
                   = GivenOrConfigured(o.maxRetries, defaultRetryAttempts)
             /\ jobs'[nextId].retryDelay
                   = GivenOrConfigured(o.retryDelay, defaultRetryDelay)
             /\ o.timeout # Undefined => jobs'[nextId].timeout = o.timeout]_vars

(* The jobs created for the recurring definition at place i: those that      *)
(* carry its name (scheduleRecurringJob and checkRecurringJobs give the job  *)
(* the name of the definition)                                               *)
JobsOfSchedule(i) == {j \in DOMAIN jobs : jobs[j].name = recurringJobs[i].name}

(* C37: each occurrence of a recurring schedule is materialized at most      *)
(* once: no two jobs created for the same schedule, by scheduleRecurringJob  *)
(* or by any sequence of ticks, have the same scheduledAt.                   *)
C37_OccurrenceOnce ==
    \A i \in DOMAIN recurringJobs :
       \A j, k \in JobsOfSchedule(i) :
          j # k => jobs[j].scheduledAt # jobs[k].scheduledAt

(* C38: for any interleaving of initialize() and shutdown() calls, two       *)
(* initialize() calls that overlap at the storage-connect await included, at *)
(* most one tick driver is running at any time, and after a shutdown() that  *)
(* completes none is running.                                                *)
C38_OneTickDriver ==
    /\ cronTasks <= 1
    /\ ret = Returned("shutdown", LogShutdown) => cronTasks = 0

(* cancelJob has returned true for job j: it published job_cancelled, which  *)
(* it does in the step in which it returns true                              *)
CancelledTrue(j) == emitted[JOB_CANCELLED][j] > 0

(* C39: after cancelJob has returned true for a job, no handler invocation   *)
(* for that job starts afterwards and no job_started, job_completed or       *)
(* job_failed event is published for it, under any interleaving of the       *)
(* cancellation with a tick that had already selected the job.               *)
C39_NothingAfterCancel ==
    [][\A j \in JobIds :
          CancelledTrue(j) =>
             /\ invoked'[j] = invoked[j]
             /\ \A k \in {JOB_STARTED, JOB_COMPLETED, JOB_FAILED} :
                   emitted'[k][j] = emitted[k][j]]_vars

(* The job was reset by retryJob while Failed with its retry budget used up *)
ResetByHand(j) == resetAt[j] # NotReset

(* A step that takes the job from Failed back to Pending *)
BackToPending(j) ==
    /\ j \in DOMAIN jobs /\ j \in DOMAIN jobs'
    /\ jobs[j].status = FAILED
    /\ jobs'[j].status = PENDING

(* C40: after retryJob has reset a Failed job whose retry budget is used up, *)
(* the handler is invoked at most once more for the job, and when that       *)
(* execution has failed only another retryJob takes the job back to Pending. *)
C40_ManualRetryRunsOnce ==
    /\ [](\A j \in JobIds : ResetByHand(j) => invoked[j] <= resetAt[j] + 1)
    /\ [][\A j \in JobIds :
              ResetByHand(j) /\ BackToPending(j) => resetAt'[j] = invoked[j]
                                                   /\ retried' = retried
                                                   /\ mgmt' # mgmt]_vars
====
